---- MODULE Spec2Model ----
(***************************************************************************)
(* Vigil: the LM Studio gateway client (services/lm_studio.py) and the     *)
(* file watcher and shadow review of the workspace panel (app.py).         *)
(*                                                                         *)
(* The client is modelled as a set of coroutines (callers of               *)
(* refresh_models, query_chat and query_chat_stream) that run on one       *)
(* cooperative event loop: a step of the model is the code between two     *)
(* suspension points (an awaited HTTP request, a wait for the refresh      *)
(* lock, a line of a streamed body).  The server is the environment: the   *)
(* outcome of every request is chosen when its response arrives.           *)
(***************************************************************************)
EXTENDS Integers, Sequences, FiniteSets, TLC

\* ------------------------------------------------------------------ bounds

MaxTime == 3         \* the monotonic clock runs from 0 to MaxTime
ModelsTtl == 1       \* models_ttl_s, in clock ticks
MaxLines == 3        \* lines of one streamed response body
ReqCap == 2          \* requests counted per call (ReqCap: that many or more)
MaxClock == 20       \* the clock of the workspace panel runs to MaxClock
ClockStep == 5       \* and advances by ClockStep seconds at a time
MaxPosted == 1       \* ShadowReviewComplete messages waiting to be handled
MaxLog == 2          \* entries written to the output log without a clear

\* --------------------------------------------------------------- constants

DefaultPort == 1234  \* port of the default base URL
NoPort == 0          \* urlparse(...).port is None
NoTime == 0 - 1      \* _last_models_refresh_monotonic is None

\* ------------------------------------------------------------- URL values
\* A URL is [host, port, path]: host is the host text of the netloc as it
\* is written (brackets included), port the port written after it (NoPort
\* when there is none), path the sequence of path segments.  The scheme is
\* "http" throughout.

Url(h, p, path) == [host |-> h, port |-> p, path |-> path]

\* The netloc is an IPv6 literal written without brackets: urlparse splits
\* it at its first colon, so the host is empty and the port text is ":1".
Unbracketed(u) == u.host = "::1"

\* urlparse(url).hostname ("" stands for None)
Hostname(u) ==
    IF u.host = "[::1]" THEN "::1"
    ELSE IF Unbracketed(u) THEN ""
    ELSE u.host

\* urlparse(url).port raises ValueError when the port text is not a number
PortRaises(u) == Unbracketed(u)

\* host.strip("[]")
StripBrackets(h) == IF h = "[::1]" THEN "::1" ELSE h

loopback_hosts == {"localhost", "127.0.0.1", "::1"}

\* list(dict.fromkeys(s)): duplicates removed, first occurrence kept
RECURSIVE DedupFrom(_, _)
DedupFrom(s, seen) ==
    IF s = <<>> THEN <<>>
    ELSE IF Head(s) \in seen THEN DedupFrom(Tail(s), seen)
    ELSE <<Head(s)>> \o DedupFrom(Tail(s), seen \cup {Head(s)})

\* The list s is bound first, so that it is computed once and then scanned.
Dedup(s) == CHOOSE r \in {DedupFrom(l, {}) : l \in {s}} : TRUE

\* path.endswith(suffix), on path segments
EndsWith(path, suffix) ==
    /\ Len(path) >= Len(suffix)
    /\ SubSeq(path, Len(path) - Len(suffix) + 1, Len(path)) = suffix

\* base_path_without(suffix)
base_path_without(path, suffix) ==
    IF EndsWith(path, suffix) THEN SubSeq(path, 1, Len(path) - Len(suffix))
    ELSE path

\* build(host, api_path): the port is attached to a host without a colon
\* and to a bracketed host; a host with a colon and no brackets gets none.
build(host, port, api_path) ==
    LET plain == StripBrackets(host) # "::1"
        bracketed == host = "[::1]"
        netport == IF port # NoPort /\ (plain \/ bracketed) THEN port
                   ELSE NoPort
    IN  Url(host, netport, api_path)

host_candidates(hostname) ==
    IF StripBrackets(hostname) \in loopback_hosts
        THEN <<hostname, "localhost", "127.0.0.1", "[::1]">>
        ELSE <<hostname>>

path_candidates(path) ==
    LET b1 == base_path_without(path, <<"v1">>)
        base == IF b1 = path THEN base_path_without(path, <<"api", "v0">>)
                ELSE b1
    IN  <<path, base \o <<"v1">>, base \o <<"api", "v0">>, base>>

\* _candidate_api_roots() raises (the ValueError of parsed.port)
CandidatesRaise(b) == PortRaises(b)

\* _candidate_api_roots() for self._base_url = b
_candidate_api_roots(b) ==
    LET hostname == IF Hostname(b) = "" THEN "127.0.0.1" ELSE Hostname(b)
        port == b.port
        hs == host_candidates(hostname)
        ps == path_candidates(b.path)
        all == [k \in 1..(Len(hs) * Len(ps)) |->
                  build(hs[((k - 1) \div Len(ps)) + 1], port,
                        ps[((k - 1) % Len(ps)) + 1])]
    IN  Dedup(all)


\* ------------------------------------------------------------ the server
\* JSON bodies of GET {base}/models.  A value is a record tagged by t; a
\* field of an item is "" when the key is absent or its value is falsy and
\* "<int>" when its value is truthy but not a string.

Item(id, name, model) == [t |-> "dict", id |-> id, name |-> name, model |-> model]
JList(items) == [t |-> "list", items |-> items]
JNoData == [t |-> "dict", has_data |-> FALSE, data |-> JList(<<>>)]
JData(v) == [t |-> "dict", has_data |-> TRUE, data |-> v]
JScalar == [t |-> "str"]
JInvalid == [t |-> "invalid"]

ModelBodies ==
    { JList(<<Item("m1", "", ""), Item("", "m2", "")>>),
      JData(JList(<<Item("m1", "", ""), JScalar, Item("<int>", "m2", "")>>)),
      JList(<<Item("", "", "m1")>>),
      JList(<<>>),
      JNoData,
      JData(JScalar),
      JScalar,
      JInvalid }

\* isinstance(model_id, str) and model_id
IsStr(v) == v \notin {"", "<int>"}

\* Variant of ModelId: only the id key is read
ModelIdOnly(item) == item.id

\* item.get("id") or item.get("name") or item.get("model")
ModelId(item) ==
    IF item.id # "" THEN item.id
    ELSE IF item.name # "" THEN item.name
    ELSE item.model

RECURSIVE CollectIds(_)
CollectIds(items) ==
    IF items = <<>> THEN <<>>
    ELSE LET item == Head(items)
             rest == CollectIds(Tail(items))
         IN  IF item.t # "dict" THEN rest
             ELSE IF IsStr(ModelId(item)) THEN <<ModelId(item)>> \o rest
             ELSE rest

\* lines 112-121: the model ids of a parsed body
ExtractModels(data) ==
    LET items == IF data.t = "dict"
                   THEN (IF data.has_data THEN data.data ELSE JList(<<>>))
                   ELSE data
    IN  IF items.t # "list" THEN <<>> ELSE CollectIds(items.items)

\* Bodies of POST {base}/chat/completions (stream = false).  A content is
\* the sequence of its words; shape "null" is a first choice whose content
\* is null.
ChatContents == {<<"LGTM">>}
ReviewContents ==
    {<<"[warning]", "todo">>, <<"[WARNING]", "[critical]">>,
     <<"Error:", "[CRITICAL]">>}
ChatBodies ==
    [shape : {"ok"}, content : ChatContents \cup ReviewContents]
    \cup { [shape |-> "null", content |-> <<>>],
           [shape |-> "nochoices", content |-> <<>>],
           [shape |-> "emptychoices", content |-> <<>>],
           [shape |-> "invalid", content |-> <<>>] }

\* Lines of a streamed body: data says whether the line starts with
\* "data: ", kind what follows the prefix.
StreamLines ==
    { [data |-> TRUE, kind |-> "content", text |-> "hi"],
      [data |-> TRUE, kind |-> "content", text |-> "yo"],
      [data |-> TRUE, kind |-> "empty", text |-> ""],
      [data |-> TRUE, kind |-> "done", text |-> ""],
      [data |-> TRUE, kind |-> "badjson", text |-> ""],
      [data |-> TRUE, kind |-> "nochoice", text |-> ""],
      [data |-> TRUE, kind |-> "scalar", text |-> ""],
      [data |-> FALSE, kind |-> "content", text |-> "hi"],
      [data |-> FALSE, kind |-> "done", text |-> ""] }

Statuses == {200, 401, 403, 500}

\* response.reason_phrase
reason_phrase(code) ==
    CASE code = 200 -> "OK"
      [] code = 401 -> "Unauthorized"
      [] code = 403 -> "Forbidden"
      [] code = 500 -> "Internal Server Error"

\* What a request to url can come to: an HTTP response, or an exception of
\* the HTTP library.  A URL whose netloc is an unbracketed IPv6 literal is
\* rejected by the library before anything is sent.
Transport(url) ==
    IF Unbracketed(url) THEN {"invalidurl"} ELSE {"http", "connect", "timeout"}

\* ----------------------------------------------------------- exceptions
\* kind: "none" (last_exception is None), "connect" (httpx.ConnectError),
\* "status" (httpx.HTTPStatusError), "other" (any other Exception).

NoExc == [kind |-> "none", code |-> 0, msg |-> ""]
ConnectError == [kind |-> "connect", code |-> 0, msg |-> "All connection attempts failed"]
HTTPStatusError(code) == [kind |-> "status", code |-> code, msg |-> "status error"]
OtherError(msg) == [kind |-> "other", code |-> 0, msg |-> msg]

TransportError(t) ==
    CASE t = "connect" -> ConnectError
      [] t = "timeout" -> OtherError("timed out")
      [] t = "invalidurl" -> OtherError("Invalid URL")

CantConnect == "Can't connect to LM Studio. Is it running?"

\* lines 140-150, 195-199, 261-266: the message for last_exception, as the
\* sequence of its parts
Classify(e) ==
    CASE e.kind = "connect" -> <<CantConnect>>
      [] e.kind = "status" -> <<ToString(e.code), reason_phrase(e.code)>>
      [] e.kind = "other" -> <<e.msg>>
      [] e.kind = "none" -> <<"Unknown error">>

\* f"Error: {...}"
ErrorStr(e) == <<"Error:">> \o Classify(e)


\* ------------------------------------------------------------------ state

\* Coroutines: r1 and r2 are the callers of refresh_models that may run at
\* the same time (the selector's timer and its button), u1 and u2 are
\* callers that each run one operation after the other, poll, call1 and
\* call2 are the callers of run_shadow_review.
Procs == {"r1", "r2", "u1", "u2", "poll", "call1", "call2"}
Refreshers == Procs            \* coroutines that call refresh_models
Chatters == Procs \ {"r1", "r2"}   \* coroutines that call query_chat
Streamers == {"u1", "u2"}      \* coroutines that call query_chat_stream

\* Base URLs the client is constructed with: the default one, and one of
\* a host that is not a loopback alias
DefaultUrl == Url("127.0.0.1", DefaultPort, <<"v1">>)
RemoteUrl == Url("example.com", NoPort, <<"api", "v0">>)
ConfiguredUrls == {DefaultUrl, RemoteUrl}

VARIABLES
    base_url,       \* self._base_url
    models,         \* self.models
    connected,      \* self.connected
    last_error,     \* self.last_error, as the sequence of its parts
    last_refresh,   \* self._last_models_refresh_monotonic
    lock,           \* holder of self._refresh_lock, "" when it is free
    waiters,        \* self._refresh_lock._waiters, first come first
    now,            \* time.monotonic()
    pinned,         \* history: base_url was set by a successful call
    co,             \* the coroutines: position and locals of each
    files,          \* the files under the watched root, with their mtimes
    repo,           \* the git repository of the process directory
    last_snapshot,  \* FileWatcher._last_snapshot
    change,         \* history: what check_for_changes returned last
    calls,          \* history: calls of check_for_changes
    quiet,          \* history: no file changed before the last call
    dirty,          \* history: a file changed since the last call
    selected_model, \* ModelSelector.selected_model
    options,        \* the options of the #model-select widget
    shadow_enabled, \* ModelPanel.shadow_enabled
    last_diff_hash, \* ModelPanel._last_diff_hash
    reviewing,      \* ModelPanel._reviewing
    shadow_status,  \* the text of the #shadow-status indicator
    output,         \* the entries of the #model-output log
    last_output,    \* ModelPanel.last_output
    posted,         \* ShadowReviewComplete messages not yet handled
    handled,        \* history: the message handled last
    last_subject,   \* history: the text of the review started last
    last_shadow_review,  \* WorkspacePanel._last_shadow_review
    attempt,        \* history: the reviews the poll handler called for
    rv,             \* the callers of run_shadow_review: position and result
    entry           \* history: the call of run_shadow_review made last

vars == <<base_url, models, connected, last_error, last_refresh, lock,
          waiters, now, pinned, co, files, repo, last_snapshot, change,
          calls, quiet, dirty, selected_model, options, shadow_enabled,
          last_diff_hash,
          reviewing, shadow_status, output, last_output, posted, handled,
          last_subject, last_shadow_review, attempt, rv, entry>>

client == <<base_url, models, connected, last_error, last_refresh, pinned>>

NoneErr == <<"None">>                       \* last_error is None
NoModels == <<"No models returned.">>
NoUrl == Url("", NoPort, <<>>)

NoChat == [shape |-> "none", content |-> <<>>]   \* no body parsed

\* A coroutine that is not running.  Fields:
\*   op      "refresh", "chat" or "stream"
\*   pc      "idle", "lockwait", "await" (first request to the candidate),
\*           "await_auth" (request repeated with the Authorization header),
\*           "closing" (the answer is taken and the block of "async with
\*           httpx.AsyncClient" is being left: __aexit__ closes the
\*           connection, which suspends the coroutine),
\*           "streaming", "done" (returned), "raised" (a fault escaped)
\*   cands, idx   the candidate list of the loop and the current position
\*   exc     last_exception
\*   last_fail   history: the failure of the candidate attempted last
\*           (NoExc: none failed)
\*   body    history: the body of the response refresh_models parsed
\*   data    the body query_chat parsed (line 182)
\*   opened  history: a streaming request was answered with a 2xx status
\*   reqs    history: requests issued by this call
\*   waited  history: the call waited for the refresh lock
\*   seen_force, seen_reqs, seen_ret   history, for a call that waited:
\*           the force flag, the requests and the result of the refresh
\*           whose end gave it the lock (seen_reqs = 0: none yet)
\*   chk_age   history: the age of the catalog (clock minus refresh
\*           timestamp) at the staleness test that decided the call;
\*           NoTime when there was no timestamp or the call was forced
\*   start, start_pinned   history: base_url when the candidates were
\*           computed, and whether a successful call had set it
\*   then    the handler that awaits this call of refresh_models and
\*           goes on to its query_chat when the call returns ("": none)
\*   res     "cached", "ok" or "error"
\*   ret     the list refresh_models returned
\*   text    the string query_chat returned, as its parts
\*   frags   the fragments query_chat_stream yielded so far
\*   lines   the lines of the streamed body read so far
Idle ==
    [op |-> "none", pc |-> "idle", force |-> FALSE, cands |-> <<>>, idx |-> 0,
     exc |-> NoExc, last_fail |-> NoExc,
     body |-> JScalar, data |-> NoChat, opened |-> FALSE,
     reqs |-> 0, waited |-> FALSE,
     seen_force |-> FALSE, seen_reqs |-> 0, seen_ret |-> <<>>,
     chk_age |-> NoTime,
     start |-> NoUrl, start_pinned |-> FALSE, then |-> "",
     res |-> "none", ret |-> <<>>, text |-> <<>>, frags |-> <<>>,
     lines |-> <<>>]

\* The client after __init__ (lines 14-29), when time.monotonic() reads
\* one of origins: the clock has no defined origin
InitFrom(urls, origins) ==
    /\ base_url \in urls
    /\ models = <<>>
    /\ connected = FALSE
    /\ last_error = NoneErr
    /\ last_refresh = NoTime
    /\ lock = ""
    /\ waiters = <<>>
    /\ now \in origins
    /\ pinned = FALSE
    /\ co = [p \in Procs |-> Idle]

\* The client constructed when the clock of the model reads 0.  The
\* client looks at differences of clock readings only (line 92).
InitAt(urls) == InitFrom(urls, {0})

\* ------------------------------------------------------- shared helpers

\* Variant of _models_stale: the catalog is stale once its age reaches the TTL
ModelsStaleAtTtl(t, last) ==
    IF last = NoTime THEN TRUE ELSE (t - last) >= ModelsTtl

\* _models_stale() at clock t with refresh timestamp last
_models_stale(t, last) ==
    IF last = NoTime THEN TRUE ELSE (t - last) > ModelsTtl

\* Variant of Continues: only a ConnectError continues with the next candidate
ContinuesOnConnect(e) == e.kind = "connect"

\* The except clauses of the candidate loops (lines 128-136, 185-193,
\* 251-259): HTTPStatusError and ConnectError continue with the next
\* candidate, any other Exception breaks the loop.
Continues(e) == e.kind \in {"status", "connect"}

\* The except clauses catch every Exception.
Caught(e) == TRUE

\* Variant of Remember: the first exception is kept
RememberFirst(old, e) == IF old = NoExc THEN e ELSE old

\* last_exception = e
Remember(old, e) == e

\* The candidate the coroutine is talking to
Target(c) == c.cands[c.idx]

\* One more request, counted up to ReqCap
Count(n) == IF n < ReqCap THEN n + 1 ELSE ReqCap

\* The coroutine is not running: it has not been started, or its last call
\* has returned or raised, and the next call can be made.
Ready(c) == c.pc \in {"idle", "done", "raised"}

\* The coroutine record at the start of a candidate loop: the candidates
\* are computed from base_url and the first request is issued.
StartLoop(c) ==
    [c EXCEPT !.pc = "await", !.cands = _candidate_api_roots(base_url),
              !.idx = 1, !.exc = NoExc, !.reqs = 1,
              !.start = base_url, !.start_pinned = pinned]

\* The coroutine record of a query_chat that is called when the base URL
\* is b (pin: a successful call had set it): lines 155-178 up to the
\* first request
ChatStart(b, pin) ==
    LET c == [Idle EXCEPT !.op = "chat"]
    IN  IF CandidatesRaise(b) THEN [c EXCEPT !.pc = "raised"]
        ELSE [c EXCEPT !.pc = "await", !.cands = _candidate_api_roots(b),
                       !.idx = 1, !.exc = NoExc, !.reqs = 1,
                       !.start = b, !.start_pinned = pin]

\* History: the current candidate failed with f
Failed(c, f) == [c EXCEPT !.last_fail = f]

\* The loop goes on to the next candidate with last_exception = e
NextCandidate(c, e) ==
    [c EXCEPT !.pc = "await", !.idx = c.idx + 1, !.exc = e,
              !.reqs = Count(c.reqs)]

\* The loop is left without a success after failure e: there is no next
\* candidate, or the failure breaks the loop.
LoopEnds(c, e) == ~Continues(e) \/ c.idx = Len(c.cands)

Tick ==
    /\ now < MaxTime
    /\ now' = now + 1
    /\ UNCHANGED <<client, lock, waiters, co>>

\* ---------------------------------------------------------- responses

HttpResponses(bodies) ==
    [t : {"http"}, status : Statuses \ {200}, body : {JScalar}]
    \cup [t : {"http"}, status : {200}, body : bodies]

Responses(url, bodies) ==
    [t : Transport(url) \ {"http"}, status : {0}, body : {JScalar}]
    \cup (IF "http" \in Transport(url) THEN HttpResponses(bodies) ELSE {})

\* if response.status_code in (401, 403): repeat the request with the
\* Authorization header (lines 108-109, 179-180)
NeedsAuth(c, r) ==
    r.t = "http" /\ r.status \in {401, 403} /\ c.pc = "await"

\* The exception an attempt ends with before its body is used: the one
\* of the transport, of raise_for_status(), or of response.json().
\* NoExc when there is none.
AttemptError(r, invalid) ==
    IF r.t # "http" THEN TransportError(r.t)
    ELSE IF r.status # 200 THEN HTTPStatusError(r.status)
    ELSE IF r.body = invalid THEN OtherError("Expecting value")
    ELSE NoExc

\* -------------------------------------------------------- refresh_models

\* line 95: the test before the lock is taken
FirstCheck(force, t, last) == ~force /\ ~_models_stale(t, last)

\* Variant of Recheck: the test is not repeated under the lock
RecheckSkipped(force, t, last) == FALSE

\* line 99: the test repeated under the lock
Recheck(force, t, last) == ~force /\ ~_models_stale(t, last)

\* time.monotonic() - self._last_models_refresh_monotonic
Age(t, last) == IF last = NoTime THEN NoTime ELSE t - last

\* Variant of CachedList: a fresh empty list is returned
CachedListEmpty(cached) == <<>>

\* return self.models (lines 96, 100): the list that is returned
CachedList(cached) == cached

ReturnCached(c) ==
    [c EXCEPT !.pc = "done", !.res = "cached", !.ret = CachedList(models),
              !.chk_age = Age(now, last_refresh)]

NoModel == ""                   \* ModelSelector.selected_model is None

\* ModelSelector.refresh_models after client.refresh_models has returned
\* list (lines 115-129): the new selected_model
SelectModel(isconnected, list, selected) ==
    IF isconnected /\ list # <<>>
      THEN (IF \E i \in 1..Len(list) : list[i] = selected THEN selected
            ELSE list[1])
      ELSE NoModel

\* The record of a call that has returned or raised: no handler awaits it
\* any more
Returned(c) == [c EXCEPT !.then = ""]

\* The coroutines f after a call has returned as c to the handler that
\* awaits it.  ModelPanel.on_button_pressed awaits the selector's refresh
\* (app.py line 361) and runs on without a suspension to the first request
\* of its query_chat (lines 363-395), which it reaches when the client is
\* connected and the selector has a model.
Continued(c, f) ==
    IF /\ c.pc = "done" /\ c.then # ""
       /\ connected'
       /\ SelectModel(TRUE, c.ret, selected_model) # NoModel
      THEN [f EXCEPT ![c.then] = ChatStart(base_url', pinned')]
      ELSE f

\* async with self._refresh_lock ends for the coroutine whose record
\* becomes c: the lock is free and the first of the coroutines waiting in
\* queue, if any, is woken.  The waiter's history fields take the refresh
\* that ends (or, if this call returned the cached list, the one it had
\* seen itself).
Release(p, c, queue) ==
    /\ lock' = ""
    /\ co' = Continued(c,
             IF queue = <<>> THEN [co EXCEPT ![p] = Returned(c)]
             ELSE [co EXCEPT ![p] = Returned(c),
                             ![Head(queue)] =
                                IF c.res \in {"ok", "error"}
                                  THEN [@ EXCEPT !.seen_force = c.force,
                                                 !.seen_reqs = c.reqs,
                                                 !.seen_ret = c.ret]
                                  ELSE [@ EXCEPT !.seen_force = c.seen_force,
                                                 !.seen_reqs = c.seen_reqs,
                                                 !.seen_ret = c.seen_ret]])

\* The code under the lock up to its first suspension (lines 99-107)
Locked(p, c, queue) ==
    /\ UNCHANGED <<client, now>>
    /\ IF Recheck(c.force, now, last_refresh)
         THEN Release(p, ReturnCached(c), queue)
         ELSE IF CandidatesRaise(base_url)
         THEN Release(p, [c EXCEPT !.pc = "raised"], queue)
         ELSE /\ lock' = p
              /\ co' = [co EXCEPT ![p] =
                   [StartLoop(c) EXCEPT
                      !.chk_age = IF c.force THEN NoTime
                                  ELSE Age(now, last_refresh)]]

\* refresh_models(force=f) is called: lines 95-107 up to the first
\* suspension, which is the wait for the lock or the first request.
\* Lock.acquire() queues the caller when the lock is held or another
\* coroutine is already waiting for it.  h is the handler that awaits
\* the call and goes on when it returns ("": none).
RefreshCall(p, f, h) ==
    /\ p \in Refreshers
    /\ Ready(co[p])
    /\ LET c == [Idle EXCEPT !.op = "refresh", !.force = f, !.then = h]
       IN  IF FirstCheck(f, now, last_refresh)
             THEN /\ co' = [co EXCEPT ![p] = ReturnCached(c)]
                  /\ UNCHANGED <<client, lock, waiters, now>>
           ELSE IF lock # "" \/ waiters # <<>>
             THEN /\ co' = [co EXCEPT ![p] =
                       [c EXCEPT !.pc = "lockwait", !.waited = TRUE]]
                  /\ waiters' = Append(waiters, p)
                  /\ UNCHANGED <<client, lock, now>>
           ELSE /\ UNCHANGED waiters
                /\ Locked(p, c, waiters)

refresh_models(p, f) == RefreshCall(p, f, "")

\* The lock is free and the first waiting coroutine is resumed (line 98)
RefreshAcquire(p) ==
    /\ co[p].pc = "lockwait"
    /\ lock = ""
    /\ waiters # <<>>
    /\ Head(waiters) = p
    /\ waiters' = Tail(waiters)
    /\ Locked(p, co[p], Tail(waiters))

\* lines 122-127: a candidate answered.  The assignments are made inside
\* "async with httpx.AsyncClient" (line 105) and inside "async with
\* self._refresh_lock" (line 98); the return of line 127 leaves the first
\* through __aexit__, which suspends while the connection is closed: the
\* result is stored, the lock is still held and the call has not returned.
RefreshSucceeds(p, c, data) ==
    LET found == ExtractModels(data)
    IN  /\ models' = found
        /\ connected' = TRUE
        /\ last_error' = IF found # <<>> THEN NoneErr ELSE NoModels
        /\ last_refresh' = now
        /\ base_url' = Target(c)
        /\ pinned' = TRUE
        /\ co' = [co EXCEPT ![p] =
                    [c EXCEPT !.pc = "closing", !.res = "ok", !.ret = found,
                              !.body = data]]
        /\ UNCHANGED <<lock, waiters, now>>

\* The connection is closed: the return of line 127 goes on through the
\* exit of "async with self._refresh_lock" and the call returns.
RefreshReturns(p) ==
    /\ co[p].op = "refresh"
    /\ co[p].pc = "closing"
    /\ UNCHANGED <<client, waiters, now>>
    /\ Release(p, [co[p] EXCEPT !.pc = "done"], waiters)

\* Variant of ExhaustedStamp: a failed refresh leaves the timestamp alone
ExhaustedStampKept(t, last) == last

\* line 151: the timestamp after a refresh in which no candidate answered
ExhaustedStamp(t, last) == t

\* Variant of ExhaustedModels: a failed refresh keeps the list it had
ExhaustedModelsKept(cached) == cached

\* line 138: the list after a refresh in which no candidate answered
ExhaustedModels(cached) == <<>>

\* lines 138-152: no candidate answered
RefreshExhausted(p, c, e) ==
    /\ models' = ExhaustedModels(models)
    /\ connected' = FALSE
    /\ last_error' = Classify(e)
    /\ last_refresh' = ExhaustedStamp(now, last_refresh)
    /\ Release(p, [c EXCEPT !.pc = "done", !.res = "error", !.ret = <<>>,
                            !.exc = e], waiters)
    /\ UNCHANGED <<base_url, pinned, waiters, now>>

\* An exception that no except clause catches leaves refresh_models
RefreshRaises(p, c) ==
    /\ Release(p, [c EXCEPT !.pc = "raised"], waiters)
    /\ UNCHANGED <<client, waiters, now>>

\* The response to a request of refresh_models arrives (lines 107-136).
\* An attempt that fails leaves "async with httpx.AsyncClient" as well, but
\* nothing is assigned before its except clause has run.
RefreshResponse(p, r) ==
    /\ co[p].op = "refresh"
    /\ co[p].pc \in {"await", "await_auth"}
    /\ r \in Responses(Target(co[p]), ModelBodies)
    /\ LET a == AttemptError(r, JInvalid)
           c == Failed(co[p], a)
           e == Remember(c.exc, a)
       IN  IF NeedsAuth(co[p], r)
             THEN /\ co' = [co EXCEPT ![p] =
                       [@ EXCEPT !.pc = "await_auth", !.reqs = Count(@)]]
                  /\ UNCHANGED <<client, lock, waiters, now>>
           ELSE IF a = NoExc THEN RefreshSucceeds(p, co[p], r.body)
           ELSE IF ~Caught(a) THEN RefreshRaises(p, c)
           ELSE IF LoopEnds(c, a) THEN RefreshExhausted(p, c, e)
           ELSE /\ co' = [co EXCEPT ![p] = NextCandidate(c, e)]
                /\ UNCHANGED <<client, lock, waiters, now>>

\* ------------------------------------------------------------ query_chat

InvalidChat == [shape |-> "invalid", content |-> <<>>]
NullChat == [shape |-> "null", content |-> <<>>]

\* data["choices"][0]["message"]["content"] raises (line 184)
ContentError(body) ==
    CASE body.shape = "nochoices" -> OtherError("'choices'")
      [] body.shape = "emptychoices" -> OtherError("list index out of range")
      [] OTHER -> NoExc

\* The value query_chat returned on line 184 is None, not a string: the
\* content of the first choice was null
ReturnedNone(c) ==
    c.op = "chat" /\ c.pc = "done" /\ c.res = "ok" /\ c.data = NullChat

\* query_chat is called: lines 155-178 up to the first request
query_chat(p) ==
    /\ p \in Chatters
    /\ Ready(co[p])
    /\ co' = [co EXCEPT ![p] = ChatStart(base_url, pinned)]
    /\ UNCHANGED <<client, lock, waiters, now>>

\* lines 195-199: the string returned after the loop
ChatFails(c, e) ==
    [c EXCEPT !.pc = "done", !.res = "error", !.exc = e,
              !.text = ErrorStr(e)]

\* lines 261-266: the fragment yielded after the loop
StreamFails(c, e) ==
    [c EXCEPT !.pc = "done", !.res = "error", !.exc = e,
              !.frags = Append(c.frags, ErrorStr(e))]

\* Variant of ChatConnected: a call that ends with an error marks the
\* client disconnected
ChatMarksOffline(was, c) == was /\ ~(c.pc = "done" /\ c.res = "error")

\* self.connected after a step of query_chat or query_chat_stream that
\* leaves the coroutine as c: no line of either assigns it (lines 154-266)
ChatConnected(was, c) == was

\* How a candidate loop of query_chat or query_chat_stream goes on after
\* exception a of the current candidate: the next candidate, or the code
\* that follows the loop.
AfterError(c0, a) ==
    LET c == Failed(c0, a)
        e == Remember(c.exc, a)
    IN  IF ~Caught(a) THEN [c EXCEPT !.pc = "raised"]
        ELSE IF LoopEnds(c, a)
               THEN IF c.op = "chat" THEN ChatFails(c, e)
                    ELSE StreamFails(c, e)
        ELSE NextCandidate(c, e)

\* The response to a request of query_chat arrives (lines 178-199).
\* Line 183 pins the candidate once the body is parsed; line 184 reads
\* the content.  Its value, or its exception, leaves "async with
\* httpx.AsyncClient" (line 176) through __aexit__, which suspends while
\* the connection is closed: the candidate is pinned and the call has not
\* returned.  An attempt that fails before line 183 assigns nothing before
\* its except clause has run.
ChatResponse(p, r) ==
    /\ co[p].op = "chat"
    /\ co[p].pc \in {"await", "await_auth"}
    /\ r \in Responses(Target(co[p]), ChatBodies)
    /\ LET c == co[p]
           a == AttemptError(r, InvalidChat)
           parsed == a = NoExc
       IN  IF NeedsAuth(c, r)
             THEN /\ co' = [co EXCEPT ![p] =
                       [@ EXCEPT !.pc = "await_auth", !.reqs = Count(@)]]
                  /\ UNCHANGED <<base_url, pinned>>
           ELSE /\ base_url' = IF parsed THEN Target(c) ELSE base_url
                /\ pinned' = (pinned \/ parsed)
                /\ co' = [co EXCEPT ![p] =
                     IF parsed
                       THEN [c EXCEPT !.pc = "closing", !.data = r.body]
                       ELSE AfterError(c, a)]
    /\ connected' = ChatConnected(connected, co'[p])
    /\ UNCHANGED <<models, last_error, last_refresh, lock, waiters, now>>

\* The connection is closed: query_chat returns the content (line 184), or
\* the exception of line 184 reaches its except clause (lines 191-193) and
\* the string of lines 195-199 is returned.
ChatReturns(p) ==
    /\ co[p].op = "chat"
    /\ co[p].pc = "closing"
    /\ LET c == co[p]
           raised == ContentError(c.data)
       IN  co' = [co EXCEPT ![p] =
                    IF raised = NoExc
                      THEN [c EXCEPT !.pc = "done", !.res = "ok",
                                     !.text = c.data.content]
                      ELSE AfterError(c, raised)]
    /\ connected' = ChatConnected(connected, co'[p])
    /\ UNCHANGED <<base_url, models, last_error, last_refresh, pinned, lock,
                   waiters, now>>

\* ----------------------------------------------------- query_chat_stream

\* query_chat_stream is iterated for the first time: lines 205-230 up to
\* the first request, which carries the Authorization header.
query_chat_stream(p) ==
    /\ p \in Streamers
    /\ Ready(co[p])
    /\ LET c == [Idle EXCEPT !.op = "stream"]
       IN  co' = [co EXCEPT ![p] =
                    IF CandidatesRaise(base_url)
                      THEN [c EXCEPT !.pc = "raised"]
                      ELSE StartLoop(c)]
    /\ UNCHANGED <<client, lock, waiters, now>>

\* if response.status_code in (401, 403): continue  (lines 231-232)
StreamSkips(r) == r.t = "http" /\ r.status \in {401, 403}

\* The response headers of a streaming request arrive (lines 228-234)
StreamResponse(p, r) ==
    /\ co[p].op = "stream"
    /\ co[p].pc = "await"
    /\ r \in Responses(Target(co[p]), {JScalar})
    /\ LET c == co[p]
           a == AttemptError(r, JInvalid)
       IN  IF StreamSkips(r)
             THEN /\ co' = [co EXCEPT ![p] =
                       LET s == Failed(c, HTTPStatusError(r.status))
                       IN  IF s.idx = Len(s.cands) THEN StreamFails(s, s.exc)
                           ELSE NextCandidate(s, s.exc)]
                  /\ UNCHANGED <<base_url, pinned>>
           ELSE IF a = NoExc
             THEN /\ base_url' = Target(c)
                  /\ pinned' = TRUE
                  /\ co' = [co EXCEPT ![p] =
                       [c EXCEPT !.pc = "streaming", !.opened = TRUE]]
           ELSE /\ co' = [co EXCEPT ![p] = AfterError(c, a)]
                /\ UNCHANGED <<base_url, pinned>>
    /\ connected' = ChatConnected(connected, co'[p])
    /\ UNCHANGED <<models, last_error, last_refresh, lock, waiters, now>>

\* Variant of DecodeLine: a payload that is not valid JSON raises
DecodeLineStrict(l) ==
    IF ~l.data THEN "skip"
    ELSE CASE l.kind = "done" -> "stop"
           [] l.kind = "badjson" -> "raise"
           [] l.kind = "nochoice" -> "raise"
           [] l.kind = "scalar" -> "raise"
           [] l.kind = "empty" -> "skip"
           [] l.kind = "content" -> IF l.text # "" THEN "yield" ELSE "skip"

\* lines 237-249 for one line: "skip" (nothing), "stop" (return),
\* "yield", or "raise" (an exception other than json.JSONDecodeError)
DecodeLine(l) ==
    IF ~l.data THEN "skip"
    ELSE CASE l.kind = "done" -> "stop"
           [] l.kind = "badjson" -> "skip"
           [] l.kind = "nochoice" -> "raise"
           [] l.kind = "scalar" -> "raise"
           [] l.kind = "empty" -> "skip"
           [] l.kind = "content" -> IF l.text # "" THEN "yield" ELSE "skip"

\* The exception of lines 243-245 for a line that decodes to "raise"
LineError(l) ==
    IF l.kind = "nochoice" THEN OtherError("list index out of range")
    ELSE OtherError("'int' object has no attribute 'get'")

\* A line of the body arrives (lines 236-249)
StreamLine(p, l) ==
    /\ co[p].pc = "streaming"
    /\ Len(co[p].lines) < MaxLines
    /\ LET c == [co[p] EXCEPT !.lines = Append(@, l)]
           d == DecodeLine(l)
       IN  co' = [co EXCEPT ![p] =
             CASE d = "skip" -> c
               [] d = "stop" -> [c EXCEPT !.pc = "done", !.res = "ok"]
               [] d = "yield" -> [c EXCEPT !.frags = Append(@, <<l.text>>)]
               [] d = "raise" -> AfterError(c, LineError(l))]
    /\ UNCHANGED <<client, lock, waiters, now>>

\* The body ends without the sentinel (line 250)
StreamEnd(p) ==
    /\ co[p].pc = "streaming"
    /\ co' = [co EXCEPT ![p] = [@ EXCEPT !.pc = "done", !.res = "ok"]]
    /\ UNCHANGED <<client, lock, waiters, now>>

\* The connection breaks while the body is read: aiter_lines() raises an
\* httpx error that is not a ConnectError (lines 257-259)
ReadError == OtherError("peer closed connection")

StreamAbort(p) ==
    /\ co[p].pc = "streaming"
    /\ co' = [co EXCEPT ![p] = AfterError(@, ReadError)]
    /\ UNCHANGED <<client, lock, waiters, now>>

\* ------------------------------------------------------------ FileWatcher
\* app.py, lines 34-74.  A snapshot is a function from paths to mtimes.

Paths == {"a", "b", ".git/c"}          \* files that can exist under the root
Mtimes == {1, 2}                       \* values of st_mtime
GitPaths == {".git/c"}                 \* ".git" in path.parts
EmptySnapshot == [p \in {} |-> 1]
SnapshotsOf(ps) == UNION {[S -> Mtimes] : S \in SUBSET ps}

\* _take_snapshot() when the files under the root are fs (lines 42-54)
_take_snapshot(fs) == [p \in DOMAIN fs \ GitPaths |-> fs[p]]

\* self._last_snapshot after __init__ (lines 37-40): line 39 stores the
\* empty dict, and the dict _take_snapshot() returns on line 40 is not
\* stored.
FileWatcherInit(fs) == EmptySnapshot

\* Variant of Modified: a changed mtime is not reported
ModifiedNever(old, new) == {}

\* lines 67-70
Modified(old, new) ==
    {p \in DOMAIN old \cap DOMAIN new : old[p] # new[p]}

\* lines 61-72 and 74: the tuple check_for_changes returns, with the two
\* snapshots it compared; the lists are given as sets (their order is the
\* iteration order of a Python set)
ChangeSet(old, new) ==
    LET added == DOMAIN new \ DOMAIN old
        deleted == DOMAIN old \ DOMAIN new
        modified == Modified(old, new)
    IN  [changed |-> (added # {} \/ deleted # {} \/ modified # {}),
         added |-> added, modified |-> modified, deleted |-> deleted,
         old |-> old, new |-> new]

NoChange == ChangeSet(EmptySnapshot, EmptySnapshot)

\* check_for_changes() (lines 56-74).  History: calls counts the calls (up
\* to 2), quiet says that no file had changed since the call before, or
\* since construction.
check_for_changes ==
    /\ change' = ChangeSet(last_snapshot, _take_snapshot(files))
    /\ last_snapshot' = _take_snapshot(files)
    /\ calls' = IF calls < 2 THEN calls + 1 ELSE 2
    /\ quiet' = ~dirty
    /\ dirty' = FALSE
    /\ UNCHANGED <<files, repo>>

\* The git repository that "git diff" looks at.  The model follows one
\* path of it, the file a of the watched root: vigil is run in the watched
\* root, which is the top of a work tree.  head, index and work are the
\* contents of a in the last commit, in the index and in the work tree;
\* Absent where a is not there (in the index: a is untracked).
Absent == ""
Contents == {"c1", "c2"}
Tracked == "a"

\* The repository that goes with the files fs at the start: nothing is
\* modified and nothing is staged
CleanRepo(fs) ==
    LET c == IF Tracked \in DOMAIN fs THEN "c1" ELSE Absent
    IN  [head |-> c, index |-> c, work |-> c]

\* The environment: a file is written with content c (created, or its
\* mtime changes)
WriteFile(p, m, c) ==
    /\ p \in Paths /\ m \in Mtimes /\ c \in Contents
    /\ p \in DOMAIN files => files[p] # m
    /\ files' = [q \in DOMAIN files \cup {p} |-> IF q = p THEN m ELSE files[q]]
    /\ repo' = IF p = Tracked THEN [repo EXCEPT !.work = c] ELSE repo
    /\ dirty' = TRUE
    /\ UNCHANGED <<last_snapshot, change, calls, quiet>>

\* The environment: a file is removed
DeleteFile(p) ==
    /\ p \in DOMAIN files
    /\ files' = [q \in DOMAIN files \ {p} |-> files[q]]
    /\ repo' = IF p = Tracked THEN [repo EXCEPT !.work = Absent] ELSE repo
    /\ dirty' = TRUE
    /\ UNCHANGED <<last_snapshot, change, calls, quiet>>

\* The environment: "git add a".  It writes under .git only, which the
\* snapshots leave out (line 47).
GitAdd ==
    /\ repo.index # repo.work
    /\ repo' = [repo EXCEPT !.index = repo.work]
    /\ UNCHANGED <<files, last_snapshot, change, calls, quiet, dirty>>

\* The environment: "git commit"
GitCommit ==
    /\ repo.head # repo.index
    /\ repo' = [repo EXCEPT !.head = repo.index]
    /\ UNCHANGED <<files, last_snapshot, change, calls, quiet, dirty>>

watcher == <<files, repo, last_snapshot, change, calls, quiet, dirty>>

\* ------------------------------------------------ ModelSelector (app.py)

\* The code that follows "await client.refresh_models" runs in the step in
\* which the client call of coroutine p returns.
\* returned says that the call has returned, and list is what it returned.
SelectorSees(returned, list) ==
    /\ selected_model' =
          IF returned THEN SelectModel(connected', list, selected_model)
          ELSE selected_model
    /\ options' =
          IF returned
            THEN (IF connected' THEN list ELSE <<>>)    \* lines 116, 126
            ELSE options

Selected(p) == SelectorSees(co'[p].pc = "done", co'[p].ret)

\* on_select_changed (lines 137-140) handles a Select.Changed event of
\* #model-select whose value m is not Select.BLANK.  The handler does not
\* look at the options the widget has when the event is handled.
on_select_changed(m) ==
    /\ selected_model' = m
    /\ UNCHANGED options

selector == <<selected_model, options>>

\* ----------------------------------------------------- diffs (git.py)
\* A text is the sequence of its words.

NoUnstaged == <<"(no unstaged changes)">>     \* git.py line 13
NothingStaged == <<"(nothing staged)">>       \* git.py line 27
GitError == <<"Error:", "git">>               \* git.py lines 15, 29
UnstagedTexts == {NoUnstaged, GitError, <<"d1">>}
StagedTexts == {NothingStaged, GitError, <<"d2">>, <<"d3">>}
NoText == <<>>

\* The output of git for a path whose content goes from x to y: the
\* patch names both (Absent: /dev/null)
DiffText(x, y) == <<"diff", x, y>>

\* get_git_diff() (lines 4-13) in repository r, with git installed and
\* answering in time: the work tree against the index.  An untracked
\* file is not in the index and gives no output.
get_git_diff(r) ==
    IF r.index = Absent \/ r.work = r.index THEN NoUnstaged
    ELSE DiffText(r.index, r.work)

\* get_git_staged() (lines 18-27): the index against the last commit
get_git_staged(r) ==
    IF r.index = r.head THEN NothingStaged
    ELSE DiffText(r.head, r.index)

\* The diff run_shadow_review would review in repository r (app.py lines
\* 283-286): the unstaged one, or the staged one when nothing is unstaged
ReviewSubject(r) ==
    IF get_git_diff(r) = NoUnstaged THEN get_git_staged(r)
    ELSE get_git_diff(r)

\* The position of a content among the contents
ContentCode(c) == IF c = Absent THEN 0 ELSE IF c = "c1" THEN 1 ELSE 2

\* text.startswith("Error:")
StartsWithError(text) == text # <<>> /\ text[1] = "Error:"

\* hash(diff): some function of the text; two of the texts collide
hash(text) ==
    CASE text = <<"d1">> -> 11
      [] text = <<"d2">> -> 12
      [] text = <<"d3">> -> 11
      [] Len(text) = 3 /\ text[1] = "diff" ->
            20 + 3 * ContentCode(text[2]) + ContentCode(text[3])
      [] OTHER -> 13

\* app.py lines 284 and 287: the diff gives nothing to review
NoDiff(text, sentinel) ==
    text = sentinel \/ text = NoText \/ StartsWithError(text)

\* ------------------------------------------------- ModelPanel (app.py)

\* Callers of run_shadow_review: the poll timer of the app, and two callers
\* that call the entry point at any time
Reviewers == {"poll", "call1", "call2"}

\* Variant of SameDiff: the hash is not compared
SameDiffNever(h, last) == FALSE

\* line 292
SameDiff(h, last) == h = last

\* Variant of Guarded: a review in progress is not looked at
UnguardedEntry(isenabled, inprogress) == ~isenabled

\* line 273
Guarded(isenabled, inprogress) == ~isenabled \/ inprogress

\* Variant of Offline: the client is taken to be connected
OfflineNever(isconnected, model) == FALSE

\* line 279
Offline(isconnected, model) == ~isconnected \/ model = NoModel

\* response.upper(), word by word
Upper(w) ==
    CASE w = "[critical]" -> "[CRITICAL]"
      [] w = "[warning]" -> "[WARNING]"
      [] OTHER -> w

\* tag in response.upper()
HasTag(text, tag) == \E i \in 1..Len(text) : Upper(text[i]) = tag

\* Variant of review_status: the warning tag is looked for first
WarningFirst(response) ==
    IF StartsWithError(response) THEN "error"
    ELSE IF HasTag(response, "[WARNING]") THEN "warning"
    ELSE IF HasTag(response, "[CRITICAL]") THEN "critical"
    ELSE "safe"

\* lines 319-330
review_status(response) ==
    IF StartsWithError(response) THEN "error"
    ELSE IF HasTag(response, "[CRITICAL]") THEN "critical"
    ELSE IF HasTag(response, "[WARNING]") THEN "warning"
    ELSE "safe"

\* lines 321-330: the text of the status indicator
Indicator(status) ==
    CASE status = "error" -> "ERR"
      [] status = "critical" -> "CRITICAL"
      [] status = "warning" -> "WARN"
      [] status = "safe" -> "OK"

\* A caller of run_shadow_review that has not called.  Fields:
\*   pc       "idle", "chat" (awaiting query_chat), "done" (returned),
\*            "raised" (an exception left run_shadow_review)
\*   chatted  history: the call invoked query_chat
\*   isnone   history: query_chat returned None
\*   status   the status of the ShadowReviewComplete message posted
IdleReview ==
    [pc |-> "idle", chatted |-> FALSE, isnone |-> FALSE, status |-> "none"]

\* The tests of lines 284 and 287 written out: git reports no change, gives
\* no output, or gives an error text
EmptyUnstaged(d) == d = NoUnstaged \/ d = NoText \/ d[1] = "Error:"
EmptyStaged(s) == s = NothingStaged \/ s = NoText \/ s[1] = "Error:"

\* The conditions under which run_shadow_review returns before line 294
\* (lines 273-293), written out one by one: disabled, a review in
\* progress, not connected, no model selected, nothing to review in the
\* unstaged and in the staged diff, or the hash of the diff (the staged one
\* when the unstaged one gives nothing) equal to the hash reviewed last
NothingToDo(isenabled, inprogress, isconnected, model, d, s, lasthash) ==
    \/ ~isenabled
    \/ inprogress
    \/ ~isconnected
    \/ model = NoModel
    \/ (EmptyUnstaged(d) /\ EmptyStaged(s))
    \/ hash(IF EmptyUnstaged(d) THEN s ELSE d) = lasthash

\* History of the call of run_shadow_review made last.  Fields:
\*   by       the caller ("": no call yet)
\*   nothing  NothingToDo held when the call was made
\*   on, busy   shadow_enabled and _reviewing when the call was made
\*   ready    the call was made with shadow review enabled, no review in
\*            progress, the client connected and a model selected
\*   same     the diff at the call (the unstaged one, or the staged one
\*            when the unstaged one gives nothing) was the text of the
\*            review started last
\*   kept     shadow_enabled, _reviewing and _last_diff_hash had the
\*            same values after the call as before it
\*   chatted  the call invoked query_chat: the caller's record of
\*            query_chat was not the same after the call as before it
NoEntry ==
    [by |-> "", nothing |-> FALSE, on |-> FALSE, busy |-> FALSE,
     ready |-> FALSE, same |-> FALSE, kept |-> TRUE, chatted |-> FALSE]

ReviewReady(r) == r.pc \in {"idle", "done", "raised"}

\* History: this step leaves shadow_enabled, _reviewing and _last_diff_hash
\* with the values they had
Kept ==
    /\ shadow_enabled' = shadow_enabled
    /\ reviewing' = reviewing
    /\ last_diff_hash' = last_diff_hash

\* History: this step starts a query_chat of p: the record of p's call is
\* not the one it was
Invoked(p) == co'[p] # co[p]

\* toggle_shadow() (lines 259-269)
toggle_shadow ==
    /\ shadow_enabled' = ~shadow_enabled
    /\ shadow_status' = IF shadow_enabled' THEN "watching" ELSE "off"
    /\ UNCHANGED <<last_diff_hash, reviewing, output, last_output, posted,
                   handled, last_subject, rv, entry>>

\* run_shadow_review() is called by p while git gives d and s: lines
\* 273-314 up to the first request of query_chat
run_shadow_review(p, d, s) ==
    /\ ReviewReady(rv[p])
    /\ Len(posted) < MaxPosted
    /\ UNCHANGED <<shadow_enabled, output, last_output, posted, handled>>
    /\ LET diff == IF NoDiff(d, NoUnstaged) THEN s ELSE d
           diff_hash == hash(diff)
           returns == \/ Guarded(shadow_enabled, reviewing)
                      \/ Offline(connected, selected_model)
                      \/ (NoDiff(d, NoUnstaged) /\ NoDiff(s, NothingStaged))
                      \/ SameDiff(diff_hash, last_diff_hash)
           call == [NoEntry EXCEPT
                      !.by = p,
                      !.nothing = NothingToDo(shadow_enabled, reviewing,
                                      connected, selected_model, d, s,
                                      last_diff_hash),
                      !.on = shadow_enabled,
                      !.busy = reviewing,
                      !.ready = (shadow_enabled /\ ~reviewing /\ connected
                                   /\ selected_model # NoModel),
                      !.same = ((IF EmptyUnstaged(d) THEN s ELSE d)
                                  = last_subject)]
       IN  IF returns
             THEN /\ rv' = [rv EXCEPT ![p] = [IdleReview EXCEPT !.pc = "done"]]
                  /\ UNCHANGED <<last_diff_hash, reviewing, shadow_status,
                                 last_subject>>
                  /\ UNCHANGED <<client, lock, waiters, now, co>>
                  /\ entry' = [call EXCEPT !.kept = Kept,
                                           !.chatted = Invoked(p)]
             ELSE /\ last_diff_hash' = diff_hash
                  /\ reviewing' = TRUE
                  /\ shadow_status' = "Reviewing..."
                  /\ last_subject' = diff
                  /\ query_chat(p)
                  /\ entry' = [call EXCEPT !.kept = Kept,
                                           !.chatted = Invoked(p)]
                  /\ rv' = [rv EXCEPT ![p] =
                       [IdleReview EXCEPT
                          !.pc = IF co'[p].pc = "raised" THEN "raised"
                                 ELSE "chat",
                          !.chatted = TRUE]]

\* run_shadow_review after a step of the query_chat it awaits: lines
\* 316-333 once the call has returned.  A content of null makes query_chat
\* return None, and response.startswith on line 319 raises AttributeError.
ReviewResumes(p) ==
    /\ IF co'[p].pc = "raised"
         THEN /\ rv' = [rv EXCEPT ![p] = [@ EXCEPT !.pc = "raised"]]
              /\ UNCHANGED <<reviewing, shadow_status, posted>>
       ELSE IF co'[p].pc # "done"
         THEN UNCHANGED <<rv, reviewing, shadow_status, posted>>
       ELSE IF co'[p].res = "ok" /\ co'[p].data = NullChat
         THEN /\ reviewing' = FALSE
              /\ rv' = [rv EXCEPT ![p] =
                          [@ EXCEPT !.pc = "raised", !.isnone = TRUE]]
              /\ UNCHANGED <<shadow_status, posted>>
       ELSE LET response == co'[p].text
                status == review_status(response)
            IN  /\ reviewing' = FALSE
                /\ shadow_status' = Indicator(status)
                /\ posted' = Append(posted, [result |-> response,
                                             status |-> status])
                /\ rv' = [rv EXCEPT ![p] =
                            [@ EXCEPT !.pc = "done", !.status = status]]
    /\ UNCHANGED <<shadow_enabled, last_diff_hash, output, last_output,
                   handled, last_subject, entry>>

\* A response to the query_chat of run_shadow_review arrives (line 310)
ReviewResponse(p, r) ==
    /\ rv[p].pc = "chat"
    /\ ChatResponse(p, r)
    /\ ReviewResumes(p)

\* The query_chat of run_shadow_review has closed its connection and
\* returns (lines 310-333)
ReviewReturns(p) ==
    /\ rv[p].pc = "chat"
    /\ ChatReturns(p)
    /\ ReviewResumes(p)

\* Variant of Surfaced: an error is written to the log as well
SurfacedWithError(status) == status \in {"critical", "warning", "error"}

\* line 406
Surfaced(status) == status \in {"critical", "warning"}

\* on_model_panel_shadow_review_complete (lines 404-410) for the message
\* posted first.  History: handled is the message and whether it was
\* written to the output log.
on_model_panel_shadow_review_complete ==
    /\ posted # <<>>
    /\ LET event == Head(posted)
       IN  /\ posted' = Tail(posted)
           /\ handled' = [status |-> event.status,
                          logged |-> Surfaced(event.status)]
           /\ IF Surfaced(event.status)
                THEN /\ output' = << <<"Shadow Review:">> \o event.result >>
                     /\ last_output' = event.result
                ELSE UNCHANGED <<output, last_output>>
    /\ UNCHANGED <<shadow_enabled, last_diff_hash, reviewing, shadow_status,
                   last_subject, rv, entry>>

\* The buttons of the panel (lines 247-253)
Buttons ==
    {"btn-diff", "btn-staged", "btn-commit", "btn-ping", "btn-copy",
     "btn-shadow"}

\* on_button_pressed (lines 335-395) up to its return or first suspension:
\* coroutine p handles the press of button b.  When the client is not
\* connected it awaits ModelSelector.refresh_models, which calls
\* refresh_models of the client.  The panel handles one press at a time.  subprocess.run on
\* line 346 raises when clip fails or is not there, and nothing is
\* written then.  The four buttons that query the model differ in the
\* prompt and the context only.
on_button_pressed(p, b) ==
    /\ Ready(co[p])
    /\ b \in Buttons
    /\ IF b = "btn-copy"
         THEN /\ Len(output) < MaxLog
              /\ IF last_output = NoText
                   THEN output' = Append(output, <<"Nothing to copy">>)
                   ELSE \/ output' = Append(output, <<"Copied to clipboard">>)
                        \/ UNCHANGED output
              /\ UNCHANGED <<shadow_enabled, last_diff_hash, reviewing,
                             shadow_status, last_output, posted, handled,
                             last_subject, rv, entry>>
              /\ UNCHANGED <<client, lock, waiters, now, co>>
       ELSE IF b = "btn-shadow"
         THEN /\ toggle_shadow
              /\ UNCHANGED <<client, lock, waiters, now, co>>
       ELSE /\ IF ~connected
                THEN /\ RefreshCall(p, TRUE, p)
                     /\ UNCHANGED output
              ELSE IF selected_model = NoModel
                THEN /\ Len(output) < MaxLog
                     /\ output' = Append(output, <<"No model selected">>)
                     /\ UNCHANGED <<client, lock, waiters, now, co>>
              ELSE /\ output' = << <<"Thinking...">> >>
                   /\ query_chat(p)
            /\ UNCHANGED <<shadow_enabled, last_diff_hash, reviewing,
                           shadow_status, last_output, posted, handled,
                           last_subject, rv, entry>>

\* on_button_pressed after a step of the refresh it awaits (a response to
\* a request arrives, or the connection is closed).  When the refresh
\* returns, the rest of
\* ModelSelector.refresh_models and lines 363-395 run in the same step:
\* the handler writes to the log and returns, or clears the log and calls
\* query_chat, which leaves p in its first request.  A forced refresh
\* returns the list it has stored in self.models.
ButtonResumes(p) ==
    /\ LET returned == co'[p].op = "chat" \/ co'[p].pc = "done"
       IN  /\ SelectorSees(returned, models')
           /\ IF ~returned THEN UNCHANGED output
              ELSE IF ~connected'
                THEN /\ Len(output) < MaxLog
                     /\ output' = Append(output, <<"LM Studio not connected">>)
              ELSE IF selected_model' = NoModel
                THEN /\ Len(output) < MaxLog
                     /\ output' = Append(output, <<"No model selected">>)
              ELSE output' = << <<"Thinking...">> >>
    /\ UNCHANGED <<shadow_enabled, last_diff_hash, reviewing, shadow_status,
                   last_output, posted, handled, last_subject, rv, entry>>

ButtonRefreshed(p, r) ==
    /\ co[p].then = p
    /\ RefreshResponse(p, r)
    /\ ButtonResumes(p)

\* The refresh that on_button_pressed awaits has closed its connection and
\* returns (line 361)
ButtonRefreshReturns(p) ==
    /\ co[p].then = p
    /\ RefreshReturns(p)
    /\ ButtonResumes(p)

\* on_button_pressed after a step of the query_chat it awaits: lines
\* 400-402 once the call has returned
ButtonShows(p) ==
    /\ IF co'[p].pc = "done"
         THEN /\ last_output' = co'[p].text
              /\ output' = <<co'[p].text>>
         ELSE UNCHANGED <<output, last_output>>
    /\ UNCHANGED <<shadow_enabled, last_diff_hash, reviewing, shadow_status,
                   posted, handled, last_subject, rv, entry>>

\* A response to the query_chat of on_button_pressed arrives (line 395)
ButtonResponse(p, r) ==
    /\ ChatResponse(p, r)
    /\ ButtonShows(p)

\* The query_chat of on_button_pressed has closed its connection and
\* returns (lines 395-402)
ButtonReturns(p) ==
    /\ ChatReturns(p)
    /\ ButtonShows(p)

panel == <<shadow_enabled, last_diff_hash, reviewing, shadow_status, output,
           last_output, posted, handled, last_subject, rv, entry>>

\* --------------------------------------------- WorkspacePanel (app.py)

SHADOW_REVIEW_COOLDOWN == 10       \* seconds

\* Variant of CooledDown: the cooldown is not looked at
CooledDownAlways(t, last) == TRUE

\* line 687
CooledDown(t, last) == t - last >= SHADOW_REVIEW_COOLDOWN

\* _check_for_file_changes() (lines 674-689) while git gives d and s.
\* History: attempt holds the clock of the last call of run_shadow_review
\* made here, and the time that had passed since the one before it.
_check_for_file_changes(d, s) ==
    /\ ReviewReady(rv["poll"])
    /\ check_for_changes
    /\ IF change'.changed /\ shadow_enabled
          /\ CooledDown(now, last_shadow_review)
         THEN /\ last_shadow_review' = now
              /\ attempt' = [at |-> now,
                             gap |-> IF attempt.at = NoTime THEN NoTime
                                     ELSE now - attempt.at]
              /\ run_shadow_review("poll", d, s)
         ELSE UNCHANGED <<last_shadow_review, attempt, panel, client, lock,
                          waiters, now, co>>
    /\ UNCHANGED selector

\* Time passes
Sleep ==
    /\ now + ClockStep <= MaxClock
    /\ now' = now + ClockStep
    /\ UNCHANGED <<client, lock, waiters, co>>

app == <<watcher, panel, selector, last_shadow_review, attempt>>

\* The state of the app after WorkspacePanel.__init__ and compose()
\* (lines 236-241, 254, 418-426, 82-84) when the files under the root are
\* one of roots
InitApp(roots) ==
    /\ files \in roots
    /\ repo = CleanRepo(files)
    /\ last_snapshot = FileWatcherInit(files)
    /\ change = NoChange
    /\ calls = 0
    /\ quiet = TRUE
    /\ dirty = FALSE
    /\ selected_model = NoModel
    /\ options = <<>>
    /\ shadow_enabled = FALSE
    /\ last_diff_hash = 0
    /\ reviewing = FALSE
    /\ shadow_status = "off"
    /\ output = <<>>
    /\ last_output = NoText
    /\ posted = <<>>
    /\ handled = [status |-> "none", logged |-> FALSE]
    /\ last_subject = NoText
    /\ last_shadow_review = 0
    /\ attempt = [at |-> NoTime, gap |-> NoTime]
    /\ rv = [p \in Reviewers |-> IdleReview]
    /\ entry = NoEntry

\* ------------------------------------------------------ specifications

\* The chat bodies without the contents that matter to a review only
PlainChatBodies ==
    {b \in ChatBodies : b.content \notin ReviewContents}

AnyResponse ==
    [t : {"http", "connect", "timeout", "invalidurl"},
     status : Statuses \cup {0}, body : ModelBodies \cup PlainChatBodies]

\* The lines of a well-formed body
PlainLines == {l \in StreamLines : l.data /\ l.kind \in {"content", "done"}}

\* One caller, one operation after the other, at a fixed clock
Init == InitAt(ConfiguredUrls) /\ InitApp({EmptySnapshot})

Next ==
    \/ \E f \in BOOLEAN : refresh_models("u1", f) /\ UNCHANGED app
    \/ \E r \in AnyResponse : RefreshResponse("u1", r) /\ UNCHANGED app
    \/ RefreshReturns("u1") /\ UNCHANGED app
    \/ query_chat("u1") /\ UNCHANGED app
    \/ \E r \in AnyResponse : ChatResponse("u1", r) /\ UNCHANGED app
    \/ ChatReturns("u1") /\ UNCHANGED app
    \/ query_chat_stream("u1") /\ UNCHANGED app
    \/ \E r \in AnyResponse : StreamResponse("u1", r) /\ UNCHANGED app
    \/ \E l \in PlainLines : StreamLine("u1", l) /\ UNCHANGED app
    \/ StreamEnd("u1") /\ UNCHANGED app
    \/ StreamAbort("u1") /\ UNCHANGED app

Spec == Init /\ [][Next]_vars

\* Two concurrent callers of refresh_models and the clock.  The server
\* answers with a catalog or refuses the connection.
InitRefresh == InitAt({RemoteUrl}) /\ InitApp({EmptySnapshot})

RefreshAnswers ==
    {r \in AnyResponse :
        /\ r.t \in {"http", "connect"}
        /\ r.status \in {0, 200}
        /\ r.status = 200 => r.body = JList(<<Item("", "", "m1")>>)}

NextRefresh ==
    \/ Tick /\ UNCHANGED app
    \/ \E p \in {"r1", "r2"}, f \in BOOLEAN : refresh_models(p, f) /\ UNCHANGED app
    \/ \E p \in {"r1", "r2"} : RefreshAcquire(p) /\ UNCHANGED app
    \/ \E p \in {"r1", "r2"}, r \in RefreshAnswers :
          RefreshResponse(p, r) /\ UNCHANGED app
    \/ \E p \in {"r1", "r2"} : RefreshReturns(p) /\ UNCHANGED app

SpecRefresh == InitRefresh /\ [][NextRefresh]_vars

\* Calls of the three operations that overlap: r1 and r2 call
\* refresh_models, u1 calls query_chat and u2 calls query_chat_stream, each
\* at any time.  The server answers with a catalog, a chat completion or a
\* stream, or not in time.
InitInterleave == InitAt({RemoteUrl}) /\ InitApp({EmptySnapshot})

InterleaveAnswers ==
    {r \in AnyResponse :
        /\ r.t \in {"http", "timeout"}
        /\ r.status \in {0, 200}
        /\ r.status = 200 =>
              r.body \in {JList(<<Item("", "", "m1")>>), JScalar,
                          [shape |-> "ok", content |-> <<"LGTM">>]}}

InterleaveLines == {l \in PlainLines : l.text # "yo"}

NextInterleave ==
    \/ \E p \in {"r1", "r2"}, f \in BOOLEAN : refresh_models(p, f) /\ UNCHANGED app
    \/ \E p \in {"r1", "r2"} : RefreshAcquire(p) /\ UNCHANGED app
    \/ \E p \in {"r1", "r2"}, r \in InterleaveAnswers :
          RefreshResponse(p, r) /\ UNCHANGED app
    \/ \E p \in {"r1", "r2"} : RefreshReturns(p) /\ UNCHANGED app
    \/ query_chat("u1") /\ UNCHANGED app
    \/ \E r \in InterleaveAnswers : ChatResponse("u1", r) /\ UNCHANGED app
    \/ ChatReturns("u1") /\ UNCHANGED app
    \/ query_chat_stream("u2") /\ UNCHANGED app
    \/ \E r \in InterleaveAnswers : StreamResponse("u2", r) /\ UNCHANGED app
    \/ \E l \in InterleaveLines : StreamLine("u2", l) /\ UNCHANGED app
    \/ StreamEnd("u2") /\ UNCHANGED app
    \/ StreamAbort("u2") /\ UNCHANGED app

SpecInterleave == InitInterleave /\ [][NextInterleave]_vars

\* One streaming chat, every kind of line
InitStream == InitAt(ConfiguredUrls) /\ InitApp({EmptySnapshot})

NextStream ==
    \/ query_chat_stream("u1") /\ UNCHANGED app
    \/ \E r \in AnyResponse : StreamResponse("u1", r) /\ UNCHANGED app
    \/ \E l \in StreamLines : StreamLine("u1", l) /\ UNCHANGED app
    \/ StreamEnd("u1") /\ UNCHANGED app
    \/ StreamAbort("u1") /\ UNCHANGED app

SpecStream == InitStream /\ [][NextStream]_vars

\* The file watcher alone: files are written and removed, and
\* check_for_changes is called
InitWatch == InitAt({DefaultUrl}) /\ InitApp(SnapshotsOf(Paths))

gateway == <<client, lock, waiters, now, co>>

CheckForChanges ==
    /\ check_for_changes
    /\ UNCHANGED <<gateway, panel, selector, last_shadow_review,
                   attempt>>

NextWatch ==
    \/ CheckForChanges
    \/ \E p \in Paths, m \in Mtimes :
          /\ WriteFile(p, m, "c1")
          /\ UNCHANGED <<gateway, panel, selector, last_shadow_review,
                         attempt>>
    \/ \E p \in Paths :
          /\ DeleteFile(p)
          /\ UNCHANGED <<gateway, panel, selector, last_shadow_review,
                         attempt>>

SpecWatch == InitWatch /\ [][NextWatch]_vars

\* A catalog of two models, m1 and m2
TwoModels == JList(<<Item("m1", "", ""), Item("", "m2", "")>>)
ModelNames == {"m1", "m2"}

\* The server answers a request with a catalog or a chat completion, or
\* not in time.
ReviewAnswers ==
    {r \in [t : {"http", "timeout"}, status : {0, 200},
            body : ModelBodies \cup ChatBodies] :
        /\ (r.t = "http") = (r.status = 200)
        /\ r.t = "timeout" => r.body = JScalar
        /\ r.t = "http" =>
              \/ r.body = TwoModels
              \/ r.body \in ChatBodies /\ r.body.shape \in {"ok", "null"}}

\* ModelSelector.refresh_models(force=True) by the selector's button (r1)
SelectorRefresh ==
    \/ /\ refresh_models("r1", TRUE)
       /\ Selected("r1")
       /\ UNCHANGED <<watcher, panel, last_shadow_review, attempt>>
    \/ \E r \in ReviewAnswers :
          /\ RefreshResponse("r1", r)
          /\ Selected("r1")
          /\ UNCHANGED <<watcher, panel, last_shadow_review, attempt>>
    \/ /\ RefreshReturns("r1")
       /\ Selected("r1")
       /\ UNCHANGED <<watcher, panel, last_shadow_review, attempt>>

\* The user picks a model in the selector
SelectChanged ==
    \E m \in ModelNames :
        /\ on_select_changed(m)
        /\ UNCHANGED <<gateway, watcher, panel, last_shadow_review, attempt>>

\* The "s" key (action_toggle_shadow)
ToggleShadow ==
    /\ toggle_shadow
    /\ UNCHANGED <<gateway, watcher, selector, last_shadow_review,
                   attempt>>

\* The message pump of the panel handles a ShadowReviewComplete message
ReviewComplete ==
    /\ on_model_panel_shadow_review_complete
    /\ UNCHANGED <<gateway, watcher, selector, last_shadow_review,
                   attempt>>

\* A response to the query_chat of a review arrives, or the call returns
ReviewAnswered(p) ==
    \/ \E r \in ReviewAnswers :
          /\ ReviewResponse(p, r)
          /\ UNCHANGED <<watcher, selector, last_shadow_review, attempt>>
    \/ /\ ReviewReturns(p)
       /\ UNCHANGED <<watcher, selector, last_shadow_review, attempt>>

\* The shadow review of the panel at a fixed clock: the selector refreshes
\* the catalog (r1), the user toggles shadow review, and run_shadow_review
\* is called by one caller (call1).
InitReview == InitAt({RemoteUrl}) /\ InitApp({EmptySnapshot})

\* The user presses Copy
CopyPressed ==
    /\ on_button_pressed("u1", "btn-copy")
    /\ UNCHANGED <<watcher, selector, last_shadow_review, attempt>>

NextReview ==
    \/ SelectorRefresh
    \/ SelectChanged
    \/ ToggleShadow
    \/ CopyPressed
    \/ \E d \in UnstagedTexts, s \in StagedTexts :
          /\ run_shadow_review("call1", d, s)
          /\ UNCHANGED <<watcher, selector, last_shadow_review,
                         attempt>>
    \/ ReviewAnswered("call1")
    \/ ReviewComplete

SpecReview == InitReview /\ [][NextReview]_vars

\* Overlapping calls: run_shadow_review is called by two callers (call1,
\* call2) while the user presses the buttons of the panel (u1) and picks
\* models.  The client gets connected by the refresh that a button press
\* awaits.  A request is answered with the catalog or LGTM, or not in time.
InitOverlap == InitAt({RemoteUrl}) /\ InitApp({EmptySnapshot})

PlainAnswers == {r \in ReviewAnswers \cap AnyResponse : r.body # NullChat}

\* The user presses a button of the panel (u1).  Copy, which only writes
\* to the log, is pressed in the specification of the review above.
ButtonPressed ==
    \E b \in Buttons \ {"btn-copy"} :
        /\ on_button_pressed("u1", b)
        /\ UNCHANGED <<watcher, selector, last_shadow_review, attempt>>

\* A response to a request of the refresh awaited by the handler arrives,
\* or the refresh returns
ButtonRefreshAnswered ==
    \/ \E r \in PlainAnswers :
          /\ ButtonRefreshed("u1", r)
          /\ UNCHANGED <<watcher, last_shadow_review, attempt>>
    \/ /\ ButtonRefreshReturns("u1")
       /\ UNCHANGED <<watcher, last_shadow_review, attempt>>

NextOverlap ==
    \/ SelectChanged
    \/ ToggleShadow
    \/ \E p \in {"call1", "call2"}, d \in UnstagedTexts, s \in StagedTexts :
          /\ run_shadow_review(p, d, s)
          /\ UNCHANGED <<watcher, selector, last_shadow_review,
                         attempt>>
    \/ \E p \in {"call1", "call2"}, r \in PlainAnswers :
          /\ ReviewResponse(p, r)
          /\ UNCHANGED <<watcher, selector, last_shadow_review,
                         attempt>>
    \/ \E p \in {"call1", "call2"} :
          /\ ReviewReturns(p)
          /\ UNCHANGED <<watcher, selector, last_shadow_review,
                         attempt>>
    \/ ReviewComplete
    \/ ButtonPressed
    \/ ButtonRefreshAnswered
    \/ \E r \in PlainAnswers :
          /\ ButtonResponse("u1", r)
          /\ UNCHANGED <<watcher, selector, last_shadow_review,
                         attempt>>
    \/ /\ ButtonReturns("u1")
       /\ UNCHANGED <<watcher, selector, last_shadow_review, attempt>>

SpecOverlap == InitOverlap /\ [][NextOverlap]_vars

\* The poll timer of the app: one file comes and goes, time passes, the
\* timer fires _check_for_file_changes (poll), which calls
\* run_shadow_review when the cooldown has passed.
\* time.monotonic() has no defined origin, and _last_shadow_review starts
\* at 0.0 (line 426): the app starts inside the first cooldown window, or
\* past it.
ClockOrigins == {0, SHADOW_REVIEW_COOLDOWN}

InitPoll == InitFrom({RemoteUrl}, ClockOrigins) /\ InitApp({EmptySnapshot})

NextPoll ==
    \/ Sleep /\ UNCHANGED app
    \/ SelectorRefresh
    \/ SelectChanged
    \/ ToggleShadow
    \/ /\ WriteFile("a", 1, "c1")
       /\ UNCHANGED <<gateway, panel, selector, last_shadow_review,
                      attempt>>
    \/ /\ DeleteFile("a")
       /\ UNCHANGED <<gateway, panel, selector, last_shadow_review,
                      attempt>>
    \/ \E d \in {NoUnstaged, <<"d1">>}, s \in {<<"d2">>, GitError} :
          _check_for_file_changes(d, s)
    \/ \E r \in PlainAnswers :
          /\ ReviewResponse("poll", r)
          /\ UNCHANGED <<watcher, selector, last_shadow_review,
                         attempt>>
    \/ /\ ReviewReturns("poll")
       /\ UNCHANGED <<watcher, selector, last_shadow_review, attempt>>
    \/ ReviewComplete

SpecPoll == InitPoll /\ [][NextPoll]_vars

\* The resolver: a client configured with any of the base URLs below makes
\* chat calls against a server that answers or refuses each candidate, so
\* every candidate of a configured URL gets pinned in some run.
ResolverHosts == {"127.0.0.1", "localhost", "[::1]", "example.com"}
ResolverPaths ==
    {<<>>, <<"v1">>, <<"api", "v0">>, <<"v1", "v1">>, <<"api", "v0", "v1">>}
ResolverUrls ==
    {Url(h, p, path) : h \in ResolverHosts, p \in {NoPort, DefaultPort},
                       path \in ResolverPaths}

ResolverAnswers ==
    {r \in AnyResponse :
        /\ r.status \in {0, 200}
        /\ r.t \in {"http", "connect", "invalidurl"}
        /\ r.status = 200 => r.body \in PlainChatBodies /\ r.body.shape = "ok"}

InitResolve == InitAt(ResolverUrls) /\ InitApp({EmptySnapshot})

NextResolve ==
    \/ query_chat("u1") /\ UNCHANGED app
    \/ \E r \in ResolverAnswers : ChatResponse("u1", r) /\ UNCHANGED app
    \/ ChatReturns("u1") /\ UNCHANGED app

SpecResolve == InitResolve /\ [][NextResolve]_vars

\* The poll timer under fair scheduling, with a healthy server: the tracked
\* file a is edited at most twice and then left alone, the selector's
\* refresh succeeds, shadow review is switched on and stays on, the timer
\* keeps firing, time keeps passing, and every request is answered.

HealthyAnswers == {r \in PlainAnswers : r.t = "http"}

\* The environment edits a: it is created, then modified once
Edit ==
    /\ \/ Tracked \notin DOMAIN files /\ WriteFile(Tracked, 1, "c1")
       \/ /\ Tracked \in DOMAIN files /\ files[Tracked] = 1
          /\ WriteFile(Tracked, 2, "c2")
    /\ UNCHANGED <<gateway, panel, selector, last_shadow_review,
                   attempt>>

\* The environment stages or commits a before its last edit
Stage ==
    /\ Tracked \in DOMAIN files /\ files[Tracked] = 1
    /\ GitAdd
    /\ UNCHANGED <<gateway, panel, selector, last_shadow_review,
                   attempt>>

Commit ==
    /\ Tracked \in DOMAIN files /\ files[Tracked] = 1
    /\ GitCommit
    /\ UNCHANGED <<gateway, panel, selector, last_shadow_review,
                   attempt>>

SelectorConnects ==
    \/ /\ refresh_models("r1", TRUE)
       /\ Selected("r1")
       /\ UNCHANGED <<watcher, panel, last_shadow_review, attempt>>
    \/ \E r \in HealthyAnswers :
          /\ RefreshResponse("r1", r)
          /\ Selected("r1")
          /\ UNCHANGED <<watcher, panel, last_shadow_review, attempt>>
    \/ /\ RefreshReturns("r1")
       /\ Selected("r1")
       /\ UNCHANGED <<watcher, panel, last_shadow_review, attempt>>

EnableShadow == ~shadow_enabled /\ ToggleShadow

\* The timer of on_mount (line 672) fires
PollTick ==
    _check_for_file_changes(get_git_diff(repo), get_git_staged(repo))

PollAnswered ==
    \/ \E r \in HealthyAnswers :
          /\ ReviewResponse("poll", r)
          /\ UNCHANGED <<watcher, selector, last_shadow_review, attempt>>
    \/ /\ ReviewReturns("poll")
       /\ UNCHANGED <<watcher, selector, last_shadow_review, attempt>>

Clock == Sleep /\ UNCHANGED app

NextPollFair ==
    \/ Clock
    \/ SelectorConnects
    \/ SelectChanged
    \/ EnableShadow
    \/ Edit
    \/ Stage
    \/ Commit
    \/ PollTick
    \/ PollAnswered
    \/ ReviewComplete

SpecPollFair ==
    /\ InitPoll /\ [][NextPollFair]_vars
    /\ WF_vars(Clock) /\ WF_vars(PollTick) /\ WF_vars(PollAnswered)
    /\ WF_vars(ReviewComplete) /\ WF_vars(SelectorConnects)

\* The selector's periodic refresh under fair scheduling, with a server
\* that listens on the IPv6 loopback address only and answers every
\* request it gets; a request to another host is refused.  The client is
\* configured with the default base URL, which has the server's address
\* among its candidates.
Listening(url) == url.host = "[::1]" /\ url.port = DefaultPort

ServerAnswer(url, body) ==
    IF Unbracketed(url) THEN [t |-> "invalidurl", status |-> 0, body |-> JScalar]
    ELSE IF Listening(url) THEN [t |-> "http", status |-> 200, body |-> body]
    ELSE [t |-> "connect", status |-> 0, body |-> JScalar]

\* Time passes.  time.monotonic() has no defined origin: when the clock of
\* the model is at its bound the origin moves instead, which keeps every
\* age that is at most the bound.
Elapse ==
    /\ IF now < MaxTime
         THEN now' = now + 1 /\ UNCHANGED last_refresh
         ELSE /\ last_refresh' = IF last_refresh > 0 THEN last_refresh - 1
                                 ELSE last_refresh
              /\ UNCHANGED now
    /\ UNCHANGED <<base_url, models, connected, last_error, pinned, lock,
                   waiters, co, app>>

\* set_interval(2.0, self.refresh_models) of ModelSelector.on_mount (line
\* 93): the timer calls refresh_models(), which is not forced
SelectorTick ==
    /\ refresh_models("r1", FALSE)
    /\ Selected("r1")
    /\ UNCHANGED <<watcher, panel, last_shadow_review, attempt>>

SelectorAnswered ==
    /\ \/ /\ co["r1"].pc \in {"await", "await_auth"}
          /\ RefreshResponse("r1", ServerAnswer(Target(co["r1"]), TwoModels))
       \/ RefreshReturns("r1")
    /\ Selected("r1")
    /\ UNCHANGED <<watcher, panel, last_shadow_review, attempt>>

\* The user chats in between
UserChat == query_chat("u1") /\ UNCHANGED app

UserChatAnswered ==
    /\ \/ /\ co["u1"].pc \in {"await", "await_auth"}
          /\ ChatResponse("u1", ServerAnswer(Target(co["u1"]),
                                   [shape |-> "ok", content |-> <<"LGTM">>]))
       \/ ChatReturns("u1")
    /\ UNCHANGED app

InitSelector == InitAt({DefaultUrl}) /\ InitApp({EmptySnapshot})

NextSelector ==
    \/ Elapse
    \/ SelectChanged
    \/ SelectorTick
    \/ SelectorAnswered
    \/ UserChat
    \/ UserChatAnswered

SpecSelectorFair ==
    /\ InitSelector /\ [][NextSelector]_vars
    /\ WF_vars(Elapse) /\ WF_vars(SelectorTick) /\ WF_vars(SelectorAnswered)

\* ----------------------------------------------------------------- claims

\* A call of refresh_models whose staleness test has been made
Decided(c) ==
    c.op = "refresh" /\ c.pc \in {"await", "await_auth", "closing", "done"}

\* C1: a non-forced refresh_models call whose staleness test finds the
\* catalog at most ModelsTtl old returns the cached list and issues no
\* request; one that finds it older than ModelsTtl issues at least one
\* request to a models endpoint.
C1_TtlDecidesNetwork ==
    \A p \in Procs :
        (Decided(co[p]) /\ ~co[p].force /\ co[p].chk_age # NoTime) =>
            /\ co[p].chk_age <= ModelsTtl =>
                  (co[p].res = "cached" /\ co[p].reqs = 0 /\ co[p].pc = "done")
            /\ co[p].chk_age > ModelsTtl =>
                  (co[p].res # "cached" /\ co[p].reqs >= 1)

\* One call has returned the non-empty catalog of a successful refresh
\* from the cache, another has found the catalog too old and is asking
\* the server.
C1_Witness ==
    \E p, q \in Procs :
        /\ connected
        /\ Decided(co[p]) /\ ~co[p].force /\ co[p].res = "cached"
        /\ co[p].chk_age \in 0..ModelsTtl /\ co[p].ret # <<>>
        /\ Decided(co[q]) /\ ~co[q].force /\ co[q].chk_age > ModelsTtl
        /\ co[q].reqs >= 1

\* A non-forced call that waited for the lock behind a non-forced refresh
\* and has made its test under the lock
WaitedBehindNonForced(c) ==
    Decided(c) /\ c.waited /\ ~c.force /\ ~c.seen_force

\* C2 as stated: two concurrent non-forced calls started while the catalog
\* is stale make exactly one request to the models endpoint between them.
C2_ExactlyOneRequest ==
    \A p \in Procs :
        (WaitedBehindNonForced(co[p]) /\ co[p].pc = "done") =>
            co[p].reqs + co[p].seen_reqs = 1

\* C2 amended: of two concurrent non-forced calls started while the catalog
\* is stale, the one that holds the lock issues at least one request, and
\* the other, if its test under the lock is made within ModelsTtl of the
\* end of the first, returns the cached list and issues none.
C2_OneCallerDoesIO ==
    \A p \in Procs :
        (WaitedBehindNonForced(co[p]) /\ co[p].chk_age <= ModelsTtl) =>
            /\ co[p].seen_reqs >= 1
            /\ co[p].reqs = 0
            /\ co[p].res = "cached"

\* The first caller needed two requests or more, the second returned the
\* cached list after waiting for it.
C2_Witness ==
    \E p \in Procs :
        /\ WaitedBehindNonForced(co[p])
        /\ co[p].pc = "done" /\ co[p].res = "cached" /\ co[p].reqs = 0
        /\ co[p].seen_reqs >= 2

\* C3 as stated: a caller, forced or not, that waited for a refresh in
\* flight issues no request of its own.
C3_WaiterNeverRequests ==
    \A p \in Procs :
        (Decided(co[p]) /\ co[p].waited) => co[p].reqs = 0

\* C3 amended: a non-forced caller that waited for a refresh in flight and
\* makes its test within ModelsTtl of the end of that refresh returns the
\* list that refresh produced and issues no request; a forced caller that
\* waited always issues requests of its own.
C3_WaiterObservesResult ==
    \A p \in Procs :
        (Decided(co[p]) /\ co[p].waited) =>
            /\ co[p].force => co[p].reqs >= 1
            /\ (~co[p].force /\ co[p].chk_age <= ModelsTtl) =>
                  /\ co[p].reqs = 0
                  /\ co[p].pc = "done"
                  /\ co[p].ret = co[p].seen_ret

\* A forced caller that waited has asked the server itself, and a non-forced
\* caller that waited has returned the models the other one fetched.
C3_Witness ==
    \E p, q \in Procs :
        /\ Decided(co[p]) /\ co[p].waited /\ co[p].force /\ co[p].reqs >= 1
        /\ Decided(co[q]) /\ co[q].waited /\ ~co[q].force
        /\ co[q].res = "cached" /\ co[q].ret # <<>>
        /\ co[q].ret = co[q].seen_ret

\* The message the specification gives for a failure: cannot-connect for
\* a connection failure, "<status> <reason>" for an HTTP status failure,
\* the description of the failure otherwise.
ExpectedMessage(f) ==
    CASE f.kind = "connect" -> <<"Can't connect to LM Studio. Is it running?">>
      [] f.kind = "status" /\ f.code = 401 -> <<"401", "Unauthorized">>
      [] f.kind = "status" /\ f.code = 403 -> <<"403", "Forbidden">>
      [] f.kind = "status" /\ f.code = 500 -> <<"500", "Internal Server Error">>
      [] OTHER -> <<f.msg>>

\* A call that returned an error result
Errored(c) == c.pc = "done" /\ c.res = "error"

\* C4 as stated: in refresh_models, query_chat and query_chat_stream an
\* error result is produced only after every candidate of the list has
\* been attempted, whatever the kind of the failures.
C4_AllCandidatesTried ==
    \A p \in Procs : Errored(co[p]) => co[p].idx = Len(co[p].cands)

\* C4 amended: a connection failure or an HTTP status failure of a
\* candidate never prevents the remaining candidates from being tried, so
\* an error result that follows such a failure is produced only after the
\* last candidate; only a failure of another kind ends the loop before.
C4_OnlyOtherFailuresEndLoop ==
    \A p \in Procs :
        /\ (Errored(co[p]) /\ co[p].last_fail.kind \in {"connect", "status"})
              => co[p].idx = Len(co[p].cands)
        /\ (Errored(co[p]) /\ co[p].idx < Len(co[p].cands))
              => co[p].last_fail.kind = "other"
        /\ (co[p].pc \in {"await", "await_auth", "closing"} /\ co[p].idx > 1)
              => co[p].last_fail.kind \in {"connect", "status"}

\* The sticky URL failed, every other candidate was tried after it, and
\* the call returned the error of the last one.
C4_Witness ==
    \E p \in Procs :
        /\ Errored(co[p]) /\ co[p].start_pinned
        /\ co[p].idx = Len(co[p].cands) /\ co[p].idx > 1
        /\ co[p].last_fail.kind \in {"connect", "status"}

\* C5: the first request of an operation that starts after a successful
\* call pinned candidate c as the base URL is addressed to c.
C5_StickyTriedFirst ==
    \A p \in Procs :
        (co[p].cands # <<>> /\ co[p].start_pinned) =>
            co[p].cands[1] = co[p].start

\* The model ids the specification gives for the bodies of ModelBodies: an
\* id is taken from id, else name, else model, of every item that is an
\* object, in order; the items are the body itself or its data list.
ExpectedIds(data) ==
    CASE data = JList(<<Item("m1", "", ""), Item("", "m2", "")>>)
            -> <<"m1", "m2">>
      [] data = JData(JList(<<Item("m1", "", ""), JScalar,
                              Item("<int>", "m2", "")>>))
            -> <<"m1">>
      [] data = JList(<<Item("", "", "m1")>>) -> <<"m1">>
      [] OTHER -> <<>>

\* refresh_models has just returned the answer of a candidate
Refreshed(c) == c.op = "refresh" /\ c.pc = "done" /\ c.res = "ok"

\* C6 as stated: after a refresh_models call in which a candidate answers,
\* connected is true, last_error is None, the base URL is that candidate
\* and the call returned the extracted list, also when it is empty.
C6_SuccessClearsError ==
    Refreshed(co["u1"]) =>
        /\ connected
        /\ last_error = NoneErr
        /\ base_url = Target(co["u1"])
        /\ co["u1"].ret = ExpectedIds(co["u1"].body)
        /\ models = co["u1"].ret

\* C6 amended: after a refresh_models call in which a candidate answers,
\* connected is true, the base URL is that candidate, the call returned
\* the extracted list, and last_error is None if the list is not empty and
\* "No models returned." if it is.
C6_SuccessState ==
    Refreshed(co["u1"]) =>
        /\ connected
        /\ last_error = IF co["u1"].ret # <<>> THEN NoneErr
                        ELSE <<"No models returned.">>
        /\ base_url = Target(co["u1"])
        /\ co["u1"].ret = ExpectedIds(co["u1"].body)
        /\ models = co["u1"].ret

\* A candidate other than the first answered with a catalog that lists no
\* model.
C6_Witness ==
    /\ Refreshed(co["u1"])
    /\ co["u1"].ret = <<>>
    /\ co["u1"].idx > 1
    /\ connected

\* C7: after a refresh_models call in which no candidate succeeds,
\* connected is false, models is empty and last_error is the message for
\* the failure of the candidate attempted last.
C7_ExhaustionState ==
    (co["u1"].op = "refresh" /\ Errored(co["u1"])) =>
        /\ ~connected
        /\ models = <<>>
        /\ co["u1"].ret = <<>>
        /\ last_error = ExpectedMessage(co["u1"].last_fail)

\* The first candidate failed in a way that lets the loop go on, the last
\* one attempted failed in another way, and last_error is its message.
C7_Witness ==
    /\ co["u1"].op = "refresh" /\ Errored(co["u1"])
    /\ co["u1"].idx > 1
    /\ co["u1"].last_fail.kind = "other"
    /\ last_error = <<co["u1"].last_fail.msg>>

\* C8: no failure of a candidate request, an unexpectedly shaped body
\* included, leaves refresh_models, query_chat or query_chat_stream as a
\* raised fault: refresh_models returns its list, query_chat returns a
\* string, which starts with "Error:" when no candidate gave a content,
\* and query_chat_stream ends its sequence.
C8_NoFaultEscapes ==
    \A p \in Procs :
        /\ co[p].pc # "raised"
        /\ (co[p].last_fail # NoExc
              /\ co[p].pc \notin {"await", "await_auth", "closing",
                                  "streaming"})
              => co[p].pc = "done"
        /\ (co[p].op = "chat" /\ co[p].pc = "done") => ~ReturnedNone(co[p])
        /\ (co[p].op = "chat" /\ Errored(co[p]))
              => (Len(co[p].text) >= 2 /\ co[p].text[1] = "Error:")
        /\ (co[p].op = "refresh" /\ Errored(co[p])) => co[p].ret = <<>>

\* C9: if no candidate answers a streaming request with success,
\* query_chat_stream yields exactly one fragment, the error string of the
\* failure of the candidate attempted last.
C9_SingleClassifiedFragment ==
    \A p \in Procs :
        (co[p].op = "stream" /\ Errored(co[p]) /\ ~co[p].opened) =>
            co[p].frags = << <<"Error:">> \o ExpectedMessage(co[p].last_fail) >>

\* The fragments the specification gives for the lines read: the non-empty
\* contents of the lines with the prefix, up to the first [DONE].
RECURSIVE Deltas(_)
Deltas(ls) ==
    IF ls = <<>> THEN <<>>
    ELSE LET l == Head(ls)
         IN  IF l.data /\ l.kind = "done" THEN <<>>
             ELSE IF l.data /\ l.kind = "content" /\ l.text # ""
               THEN << <<l.text>> >> \o Deltas(Tail(ls))
             ELSE Deltas(Tail(ls))

\* C10: the fragments yielded for a streaming response that arrives whole
\* are the non-empty delta contents of its lines with the "data: " prefix,
\* in order, up to the first [DONE].
C10_FragmentsAreDeltas ==
    \A p \in Procs :
        (co[p].op = "stream" /\ co[p].opened /\ co[p].last_fail # ReadError) =>
            co[p].frags = Deltas(co[p].lines)

\* C11: a data line whose payload is not valid JSON is dropped: as long
\* as every data line read is [DONE], invalid JSON or an object with a first
\* choice, the fragments are the non-empty delta contents of the lines read
\* up to the first [DONE], no error fragment is yielded, and the call has
\* not ended with an error.
C11_BadJsonDropped ==
    \A p \in Procs :
        (/\ co[p].op = "stream" /\ co[p].opened
         /\ co[p].last_fail # ReadError
         /\ \A i \in 1..Len(co[p].lines) :
               co[p].lines[i].data =>
                   co[p].lines[i].kind \notin {"nochoice", "scalar"}) =>
            /\ co[p].frags = Deltas(co[p].lines)
            /\ co[p].res # "error"
            /\ co[p].pc \in {"streaming", "done"}

\* A line of invalid JSON was read, and the content of the line after it
\* was yielded.
C11_Witness ==
    /\ co["u1"].op = "stream" /\ co["u1"].opened
    /\ Len(co["u1"].lines) = 3
    /\ co["u1"].lines[1].data /\ co["u1"].lines[1].kind = "badjson"
    /\ co["u1"].lines[2].data /\ co["u1"].lines[2].kind = "content"
    /\ co["u1"].lines[3].data /\ co["u1"].lines[3].kind = "done"
    /\ co["u1"].frags = << <<co["u1"].lines[2].text>> >>
    /\ co["u1"].pc = "done" /\ co["u1"].res = "ok"

\* C12: the first check_for_changes after construction, when no file has
\* changed since construction, reports changed = false and three empty
\* lists.
C12_InitialCheckQuiet ==
    (calls = 1 /\ quiet) =>
        /\ ~change.changed
        /\ change.added = {} /\ change.modified = {} /\ change.deleted = {}

\* C13: check_for_changes returns the set differences of the paths of the
\* stored and the observed snapshot and the common paths whose mtime
\* differs; the three are pairwise disjoint, changed says that one of them
\* is not empty, the observed snapshot is stored, and a further call with
\* no file changed in between reports no change.
C13_ChangeSetAlgebra ==
    calls > 0 =>
        LET old == change.old
            new == change.new
        IN  /\ change.added = DOMAIN new \ DOMAIN old
            /\ change.deleted = DOMAIN old \ DOMAIN new
            /\ change.modified =
                 {p \in Paths : /\ p \in DOMAIN old /\ p \in DOMAIN new
                                /\ old[p] # new[p]}
            /\ change.added \cap change.deleted = {}
            /\ change.added \cap change.modified = {}
            /\ change.deleted \cap change.modified = {}
            /\ change.changed =
                 (change.added \cup change.deleted \cup change.modified # {})
            /\ last_snapshot = new
            /\ (calls = 2 /\ quiet) => ~change.changed

\* A call after the first one found a file added and a file modified.
C13_Witness ==
    /\ calls = 2
    /\ change.added # {} /\ change.modified # {}
    /\ last_snapshot = change.new

\* C14: a call of run_shadow_review made while the diff is the text of the
\* review started last invokes no chat.
C14_UnchangedDiffNotReviewed ==
    (entry.by # "" /\ entry.same) => ~entry.chatted

\* A call that nothing but the unchanged diff kept from reviewing
C14_Witness ==
    /\ entry.by # "" /\ entry.ready /\ entry.same
    /\ ~entry.chatted
    /\ rv[entry.by].pc = "done"

\* C15: a call of run_shadow_review made while shadow review is disabled,
\* a review is in progress, the client is not connected, no model is
\* selected, both diffs are empty, or the hash of the diff is the hash
\* reviewed last, invokes no chat and leaves shadow_enabled, _reviewing and
\* _last_diff_hash as they were.
C15_NoOpLeavesState ==
    (entry.by # "" /\ entry.nothing) => (~entry.chatted /\ entry.kept)

\* A call made while shadow review was enabled and a review was in progress
C15_Witness ==
    /\ entry.by # "" /\ entry.nothing /\ entry.on /\ entry.busy
    /\ ~entry.chatted /\ entry.kept
    /\ reviewing

\* C16: at most one execution of run_shadow_review is awaiting its chat,
\* and _reviewing is set while one is.
C16_OneReviewInFlight ==
    /\ Cardinality({p \in Reviewers : rv[p].pc = "chat"}) <= 1
    /\ (\E p \in Reviewers : rv[p].pc = "chat") => reviewing

\* A review and a chat of the Ping button are in flight, and a second
\* call of run_shadow_review has returned without a chat.
C16_Witness ==
    /\ rv["call1"].pc = "chat" /\ co["call1"].pc = "await"
    /\ entry.by = "call2" /\ entry.on /\ entry.busy /\ ~entry.chatted
    /\ co["u1"].op = "chat" /\ co["u1"].pc = "await"

\* C17: when the poll handler calls run_shadow_review, at least
\* SHADOW_REVIEW_COOLDOWN seconds have passed since it called it the time
\* before, and _last_shadow_review is the clock of the last such call: a
\* poll that calls no review leaves it alone.
C17_CooldownBetweenAttempts ==
    /\ attempt.gap # NoTime => attempt.gap >= SHADOW_REVIEW_COOLDOWN
    /\ last_shadow_review = (IF attempt.at = NoTime THEN 0 ELSE attempt.at)

\* The poll handler called run_shadow_review a second time exactly one
\* cooldown after the first, and the call performed no review.
C17_Witness ==
    /\ attempt.gap = SHADOW_REVIEW_COOLDOWN
    /\ entry.by = "poll" /\ ~entry.chatted
    /\ rv["poll"].pc = "done"

\* C18: a review whose chat failed, or in which another step raised, ends
\* with status "error" and the reentrancy guard cleared; no exception
\* leaves run_shadow_review.
C18_FaultDegradesToError ==
    \A p \in Reviewers :
        (/\ rv[p].chatted /\ rv[p].pc \in {"done", "raised"}
         /\ (co[p].res = "error" \/ rv[p].isnone \/ rv[p].pc = "raised")) =>
            (rv[p].pc = "done" /\ rv[p].status = "error")

\* The classification the scheduler contract gives for a response
Classification(text) ==
    CASE StartsWithError(text) -> "error"
      [] ~StartsWithError(text) /\ HasTag(text, "[CRITICAL]") -> "critical"
      [] /\ ~StartsWithError(text) /\ ~HasTag(text, "[CRITICAL]")
         /\ HasTag(text, "[WARNING]") -> "warning"
      [] OTHER -> "safe"

\* C19: the status of a completed review is "error" for a response that
\* starts with "Error:", else "critical" for one with the critical tag in
\* any case, else "warning" for one with the warning tag, else "safe".
C19_ClassificationOrder ==
    \A p \in Reviewers :
        (rv[p].chatted /\ rv[p].pc = "done") =>
            rv[p].status = Classification(co[p].text)

\* A response with both tags was classified critical.
C19_Witness ==
    /\ rv["call1"].chatted /\ rv["call1"].pc = "done"
    /\ HasTag(co["call1"].text, "[WARNING]")
    /\ HasTag(co["call1"].text, "[CRITICAL]")
    /\ rv["call1"].status = "critical"

\* C20: a completed review is written to the output log exactly when its
\* status is critical, warning or error.
C20_LoggedUnlessSafe ==
    handled.status # "none" =>
        (handled.logged = (handled.status \in {"critical", "warning", "error"}))

\* C20 as the code has it: a completed review is written to the output log
\* exactly when its status is critical or warning; a review with status
\* error or safe changes the status indicator only.
C20_LoggedWhenTagged ==
    handled.status # "none" =>
        (handled.logged = (handled.status \in {"critical", "warning"}))

\* A review with status error was handled and not written to the log.
C20_Witness ==
    /\ handled.status = "error" /\ ~handled.logged
    /\ shadow_status = "ERR"
    /\ output = <<>>

\* The host of candidate u is an IPv6 literal, with or without brackets
IsIPv6(u) == StripBrackets(u.host) = "::1"

\* C21: for a configured base URL whose host is a bracketed IPv6 literal
\* with a port, every candidate built for the IPv6 host keeps the brackets
\* and the configured port, and the first candidate is the configured URL.
C21_IPv6KeepsBracketsAndPort ==
    LET c == co["u1"]
    IN  (/\ c.op = "chat" /\ c.cands # <<>> /\ ~c.start_pinned
         /\ c.start.host = "[::1]" /\ c.start.port # NoPort) =>
            /\ c.cands[1] = c.start
            /\ \A i \in 1..Len(c.cands) :
                  IsIPv6(c.cands[i]) =>
                      /\ c.cands[i].host = "[::1]"
                      /\ c.cands[i].port = c.start.port

\* C22: in every reachable client state an empty model list implies
\* connected = false.
C22_EmptyImpliesDisconnected == (models = <<>>) => ~connected

\* Shadow review is on, the client is connected with a model selected, an
\* automatic review has been attempted before, and the working tree has
\* just reached its last state (no poll has seen it yet), whose diff is
\* not the one reviewed last.  The cooldown of the last attempt ends while
\* the clock still runs.
ChangedAndSettled ==
    /\ shadow_enabled /\ connected /\ selected_model # NoModel
    /\ attempt.at # NoTime
    /\ attempt.at + SHADOW_REVIEW_COOLDOWN <= MaxClock
    /\ Tracked \in DOMAIN files /\ files[Tracked] = 2 /\ dirty
    /\ ~NoDiff(ReviewSubject(repo), NothingStaged)
    /\ last_subject # ReviewSubject(repo)

\* C23: when shadow review is on, the client connected with a model
\* selected, and the working tree changes to a new non-empty diff and then
\* stays as it is, a review of that diff is eventually invoked, also when
\* the change is detected inside the cooldown of an earlier attempt.
C23_ChangeEventuallyReviewed ==
    ChangedAndSettled ~> (last_subject = ReviewSubject(repo))

\* C24: a call of query_chat that returns an "Error: " string leaves the
\* sticky base URL as it was before the call.
C24_ErrorKeepsSticky ==
    LET c == co["u1"]
    IN  (c.op = "chat" /\ Errored(c)) => base_url = c.start

\* Line l is a data frame of valid JSON that has not the expected shape
WrongShape(l) == l.data /\ l.kind \in {"nochoice", "scalar"}

\* C25: a data frame of valid JSON that has not the expected shape is
\* ignored like any other ignorable line: once such a frame has been read
\* the fragments are still the non-empty delta contents of the lines read
\* up to the first [DONE], and the call neither raises nor ends with an
\* error fragment.
C25_WrongShapeIgnored ==
    LET c == co["u1"]
    IN  (/\ c.op = "stream" /\ c.opened /\ c.last_fail # ReadError
         /\ \E i \in 1..Len(c.lines) : WrongShape(c.lines[i])) =>
            /\ c.frags = Deltas(c.lines)
            /\ c.res # "error"
            /\ c.pc \in {"streaming", "done"}

\* The refresh that ended last found no candidate
FailedLast == ~connected /\ last_error # NoneErr

\* In this step the call of refresh_models by p makes its staleness test
\* and returns or issues its first request
Decides(p) ==
    /\ co[p].pc \in {"idle", "done", "raised", "lockwait"}
    /\ co'[p] # co[p]
    /\ co'[p].op = "refresh" /\ co'[p].pc \in {"done", "await"}

\* In this step the call of refresh_models by p ends with its candidates
\* exhausted
Exhausts(p) ==
    /\ co[p].op = "refresh" /\ co[p].pc \in {"await", "await_auth"}
    /\ Errored(co'[p])

\* C26: a refresh_models call that exhausts its candidates sets the
\* freshness timestamp to the current time; a non-forced call that makes
\* its staleness test at most ModelsTtl after a failed refresh returns the
\* empty list, issues no request and leaves the client disconnected, and a
\* call that asks the server after a failed refresh is forced or comes
\* later than ModelsTtl after it.
C26_FailureIsCached ==
    [][\A p \in Procs :
          /\ Exhausts(p) =>
                (last_refresh' = now /\ ~connected' /\ models' = <<>>)
          /\ (/\ Decides(p) /\ FailedLast /\ last_refresh # NoTime
              /\ ~co'[p].force /\ now - last_refresh <= ModelsTtl) =>
                /\ co'[p].pc = "done" /\ co'[p].res = "cached"
                /\ co'[p].ret = <<>> /\ co'[p].reqs = 0
                /\ ~connected' /\ last_refresh' = last_refresh
          /\ (Decides(p) /\ FailedLast /\ last_refresh # NoTime
                /\ co'[p].pc = "await") =>
                (co'[p].force \/ now - last_refresh > ModelsTtl)]_vars

\* After a failed refresh a non-forced call has returned the empty list
\* from the cache at the end of the TTL, without a request, and another
\* call, made after the TTL, is asking the server.
C26_Witness ==
    \E p, q \in Procs :
        /\ FailedLast /\ last_refresh # NoTime
        /\ Decided(co[p]) /\ ~co[p].force /\ co[p].res = "cached"
        /\ co[p].chk_age = ModelsTtl /\ co[p].ret = <<>> /\ co[p].reqs = 0
        /\ Decided(co[q]) /\ ~co[q].force /\ co[q].pc = "await"
        /\ co[q].chk_age > ModelsTtl

\* The set of the candidates the resolver produces for base URL b (empty
\* when the resolver raises)
CandidateSet(b) ==
    IF CandidatesRaise(b) THEN {}
    ELSE {_candidate_api_roots(b)[i] : i \in 1..Len(_candidate_api_roots(b))}

\* C27: the candidate set is stable under re-pinning: for a configured
\* base URL b and every candidate c produced for b, the candidates
\* produced for c are the candidates produced for b.
C27_CandidatesStable ==
    LET c == co["u1"]
    IN  (c.op = "chat" /\ c.cands # <<>> /\ ~c.start_pinned) =>
            \A i \in 1..Len(c.cands) :
                CandidateSet(c.cands[i]) = CandidateSet(c.start)

\* C28: in every reachable client state, under any interleaving of calls
\* of refresh_models, query_chat and query_chat_stream, a non-empty model
\* list implies connected = true and last_error = None.
C28_ModelsImplyConnected ==
    (models # <<>>) => (connected /\ last_error = NoneErr)

\* The catalog is not empty and the client is connected without an error
\* while four calls overlap: a refresh holds the lock and waits for its
\* answer with another refresh queued behind it, a chat waits for its
\* answer, and a stream that has yielded a fragment is being read.
C28_Witness ==
    /\ models # <<>> /\ connected /\ last_error = NoneErr
    /\ co["r1"].op = "refresh" /\ co["r1"].pc = "await" /\ lock = "r1"
    /\ co["r2"].op = "refresh" /\ co["r2"].pc = "lockwait"
    /\ co["u1"].op = "chat" /\ co["u1"].pc = "await"
    /\ co["u2"].op = "stream" /\ co["u2"].pc = "streaming"
    /\ co["u2"].frags # <<>>

\* C29: no step of query_chat or query_chat_stream changes connected,
\* models, last_error or the freshness timestamp, whether the call succeeds
\* or fails.
C29_ChatKeepsCatalog ==
    [][\A p \in Procs :
          (co'[p] # co[p] /\ co'[p].op \in {"chat", "stream"}) =>
              UNCHANGED <<models, connected, last_error, last_refresh>>]_vars

\* With the client connected and a catalog loaded, a chat has ended with
\* the error string of a refused connection, and the client is still
\* connected.
C29_Witness ==
    /\ connected /\ models # <<>> /\ last_refresh # NoTime
    /\ co["u1"].op = "chat" /\ Errored(co["u1"])
    /\ co["u1"].exc = ConnectError
    /\ co["u1"].text = <<"Error:", CantConnect>>

\* C30: while the server stays reachable on a candidate, the periodic
\* refresh of the model selector brings the client to connected = true
\* again and again, from whatever state it is in.
C30_EventuallyConnected == []<>connected

====
